---- MODULE Spec2Model ----
(***************************************************************************)
(* Ventazo PDF service: the request handlers of app/main.py and the        *)
(* section pipeline of app/quote_generator.py (QuotePDFGenerator).         *)
(*                                                                         *)
(* One behaviour follows one HTTP request from its arrival to its          *)
(* response.  Strings that the code parses (hex colors) are sequences of   *)
(* one-character strings; strings that the code only copies are TLA+       *)
(* strings.  Python's None is NoneVal for copied strings and a record with *)
(* some = FALSE for parsed ones.                                           *)
(***************************************************************************)
EXTENDS Integers, Sequences, FiniteSets, TLC

\* ------------------------------------------------------------------ bounds
\* longest section list enumerated for a request
MaxSections == 2
\* largest value of a descriptor's `order`
MaxOrder == 1
\* longest line-item description enumerated
MaxDescLen == 82
\* longest CUSTOM_TEXT content enumerated
MaxContentLen == 4
\* most pages the renderer lays a document out on
MaxPages == 2

\* ------------------------------------------------------- generic helpers
NoneVal == "None"

Truthy(s) == s # NoneVal /\ s # ""

Range(s) == {s[i] : i \in 1..Len(s)}

\* Sequences over S of length at most n
SeqUpTo(S, n) == UNION {[1..k -> S] : k \in 0..n}

\* ----------------------------------------------------------- hex colors
\* An optional parsed string (Optional[str] of ColorConfig)
NoneStr == [some |-> FALSE, val |-> <<>>]
SomeStr(s) == [some |-> TRUE, val |-> s]
\* Python truthiness of an Optional[str]: None and "" are falsy
TruthyOpt(o) == o.some /\ o.val # <<>>

HexDigits == <<"0","1","2","3","4","5","6","7","8","9","a","b","c","d","e","f">>

DigitVal(ch) == (CHOOSE i \in 1..16 : HexDigits[i] = ch) - 1

IsDigit(ch, base) == \E i \in 1..base : HexDigits[i] = ch

Mask24 == 256 * 256 * 256

\* int(val, base): -1 stands for ValueError.  Only the low 24 bits of the
\* value are ever used by HexColor, so the value is kept modulo 2^24.
RECURSIVE IntAcc(_, _, _)
IntAcc(s, base, acc) ==
    IF s = <<>> THEN acc
    ELSE IntAcc(Tail(s), base, (acc * base + DigitVal(Head(s))) % Mask24)

PyInt(s, base) ==
    IF s = <<>> \/ \E i \in 1..Len(s) : ~IsDigit(s[i], base)
    THEN -1
    ELSE IntAcc(s, base, 0)

\* reportlab.lib.colors.HexColor(val) for a str: a leading '#' selects base
\* 16 on the rest, otherwise base 10; the color is the low three bytes.
HexColor(val) ==
    LET body == IF val # <<>> /\ Head(val) = "#" THEN Tail(val) ELSE val
        b == IF val # <<>> /\ Head(val) = "#" THEN 16 ELSE 10
        n == PyInt(body, b)
    IN IF n < 0
       THEN [ok |-> FALSE, rgb |-> <<0, 0, 0>>]
       ELSE [ok |-> TRUE,
             rgb |-> <<(n \div 65536) % 256, (n \div 256) % 256, n % 256>>]

\* "#{:02x}{:02x}{:02x}" of three bytes
HexByte(n) == <<HexDigits[(n \div 16) + 1], HexDigits[(n % 16) + 1]>>

\* QuotePDFGenerator._color_hex: int(c * 255) of each channel c = n / 255
\* gives n back for every byte n
_color_hex(rgb) == <<"#">> \o HexByte(rgb[1]) \o HexByte(rgb[2]) \o HexByte(rgb[3])

\* A well-formed color string is '#' followed by exactly six hex digits
WellFormed(val) ==
    /\ Len(val) = 7
    /\ val[1] = "#"
    /\ \A i \in 2..7 : IsDigit(val[i], 16)

\* ------------------------------------------------- color string literals
Hex_10b981 == <<"#","1","0","b","9","8","1">>
Hex_7c3aed == <<"#","7","c","3","a","e","d">>
Hex_14b8a6 == <<"#","1","4","b","8","a","6">>
Hex_0f172a == <<"#","0","f","1","7","2","a">>
Hex_e5e7eb == <<"#","e","5","e","7","e","b">>
Hex_9ca3af == <<"#","9","c","a","3","a","f">>
Hex_334155 == <<"#","3","3","4","1","5","5">>
Hex_1f2937 == <<"#","1","f","2","9","3","7">>
Hex_111827 == <<"#","1","1","1","8","2","7">>
Hex_ffffff == <<"#","f","f","f","f","f","f">>
Hex_1e293b == <<"#","1","e","2","9","3","b">>
Hex_f8fafc == <<"#","f","8","f","a","f","c">>
Hex_ff0000 == <<"#","f","f","0","0","0","0">>

\* Malformed color strings a request can carry (ColorConfig fields are
\* plain str): a non-hex digit, the CSS short form, a missing '#', a
\* decimal number, the empty string
Bad_NonHex == <<"#","z","z","z","z","z","z">>
Bad_Short == <<"#","f","f","f">>
Bad_NoHash == <<"1","0","b","9","8","1">>
Bad_Decimal == <<"1","2","3","4","5","6">>
Bad_Empty == <<>>

\* --------------------------------------------------- static palettes
Rgb(s) == HexColor(s).rgb

\* '#' and six digits
H(a, b, c, d, e, f) == <<"#", a, b, c, d, e, f>>

\* colors.py: the attributes of the two built-in palettes that palette
\* resolution reads (the light class defines only some of them)
VentazoColors ==
    [BG_PRIMARY |-> Rgb(Hex_0f172a), BG_SECONDARY |-> Rgb(Hex_1e293b),
     BG_CARD |-> Rgb(Hex_1e293b), BG_ELEVATED |-> Rgb(Hex_334155),
     EMERALD_DARK |-> Rgb(H("0","4","7","8","5","7")),
     EMERALD_PRIMARY |-> Rgb(Hex_10b981),
     EMERALD_LIGHT |-> Rgb(H("3","4","d","3","9","9")),
     EMERALD_GLOW |-> Rgb(H("6","e","e","7","b","7")),
     TEAL_PRIMARY |-> Rgb(Hex_14b8a6), PURPLE_PRIMARY |-> Rgb(Hex_7c3aed),
     TEXT_WHITE |-> Rgb(Hex_ffffff),
     TEXT_GRAY_100 |-> Rgb(H("f","1","f","5","f","9")),
     TEXT_GRAY_300 |-> Rgb(H("c","b","d","5","e","1")),
     TEXT_GRAY_400 |-> Rgb(H("9","4","a","3","b","8")),
     TEXT_GRAY_500 |-> Rgb(H("6","4","7","4","8","b")),
     TEXT_GRAY_600 |-> Rgb(H("4","7","5","5","6","9")),
     BORDER_DARK |-> Rgb(Hex_334155),
     BORDER_LIGHT |-> Rgb(H("4","7","5","5","6","9")),
     BORDER_SUBTLE |-> Rgb(Hex_1e293b)]

VentazoColorsLight ==
    [BG_PRIMARY |-> Rgb(Hex_ffffff), BG_SECONDARY |-> Rgb(Hex_f8fafc),
     BG_CARD |-> Rgb(Hex_ffffff),
     BG_ELEVATED |-> Rgb(H("f","1","f","5","f","9")),
     EMERALD_PRIMARY |-> Rgb(Hex_10b981), TEAL_PRIMARY |-> Rgb(Hex_14b8a6),
     TEXT_PRIMARY |-> Rgb(Hex_0f172a),
     TEXT_SECONDARY |-> Rgb(H("4","7","5","5","6","9")),
     TEXT_MUTED |-> Rgb(H("9","4","a","3","b","8")),
     BORDER_DEFAULT |-> Rgb(H("e","2","e","8","f","0")),
     BORDER_SUBTLE |-> Rgb(H("f","1","f","5","f","9"))]

\* getattr(obj, name, default)
GetAttr(obj, name, default) ==
    IF name \in DOMAIN obj THEN obj[name] ELSE default

\* The copy without the block for the light class
LightSpecific_Skipped(palette, static_colors) == palette

\* _from_static, `if hasattr(static_colors, 'TEXT_PRIMARY'):` the text and
\* border colors are taken from the attributes of the light class
LightSpecific(palette, static_colors) ==
    IF "TEXT_PRIMARY" \in DOMAIN static_colors
    THEN [palette EXCEPT
            !.TEXT_WHITE = static_colors.TEXT_PRIMARY,
            !.TEXT_GRAY_300 =
                GetAttr(static_colors, "TEXT_SECONDARY",
                        Rgb(H("4","7","5","5","6","9"))),
            !.TEXT_GRAY_400 =
                GetAttr(static_colors, "TEXT_MUTED",
                        Rgb(H("9","4","a","3","b","8"))),
            !.TEXT_GRAY_500 =
                GetAttr(static_colors, "TEXT_MUTED",
                        Rgb(H("9","4","a","3","b","8"))),
            !.BORDER_DARK =
                GetAttr(static_colors, "BORDER_DEFAULT",
                        Rgb(H("e","2","e","8","f","0")))]
    ELSE palette

\* DynamicColorPalette._from_static: every named color of the palette
FromStatic(static_colors) ==
    LightSpecific(
        [source |-> "static",
         BG_PRIMARY |-> static_colors.BG_PRIMARY,
         BG_SECONDARY |->
             GetAttr(static_colors, "BG_SECONDARY", static_colors.BG_PRIMARY),
         BG_CARD |->
             GetAttr(static_colors, "BG_CARD", static_colors.BG_PRIMARY),
         BG_ELEVATED |->
             GetAttr(static_colors, "BG_ELEVATED", static_colors.BG_PRIMARY),
         EMERALD_PRIMARY |->
             GetAttr(static_colors, "EMERALD_PRIMARY", Rgb(Hex_10b981)),
         EMERALD_LIGHT |->
             GetAttr(static_colors, "EMERALD_LIGHT",
                     Rgb(H("3","4","d","3","9","9"))),
         EMERALD_DARK |->
             GetAttr(static_colors, "EMERALD_DARK",
                     Rgb(H("0","4","7","8","5","7"))),
         EMERALD_GLOW |->
             GetAttr(static_colors, "EMERALD_GLOW",
                     Rgb(H("6","e","e","7","b","7"))),
         SECONDARY |->
             GetAttr(static_colors, "PURPLE_PRIMARY", Rgb(Hex_7c3aed)),
         ACCENT |-> GetAttr(static_colors, "TEAL_PRIMARY", Rgb(Hex_14b8a6)),
         TEXT_WHITE |-> GetAttr(static_colors, "TEXT_WHITE", Rgb(Hex_ffffff)),
         TEXT_GRAY_100 |->
             GetAttr(static_colors, "TEXT_GRAY_100",
                     Rgb(H("f","1","f","5","f","9"))),
         TEXT_GRAY_300 |->
             GetAttr(static_colors, "TEXT_GRAY_300",
                     Rgb(H("c","b","d","5","e","1"))),
         TEXT_GRAY_400 |->
             GetAttr(static_colors, "TEXT_GRAY_400",
                     Rgb(H("9","4","a","3","b","8"))),
         TEXT_GRAY_500 |->
             GetAttr(static_colors, "TEXT_GRAY_500",
                     Rgb(H("6","4","7","4","8","b"))),
         TEXT_GRAY_600 |->
             GetAttr(static_colors, "TEXT_GRAY_600",
                     Rgb(H("4","7","5","5","6","9"))),
         BORDER_DARK |-> GetAttr(static_colors, "BORDER_DARK", Rgb(Hex_334155)),
         BORDER_LIGHT |->
             GetAttr(static_colors, "BORDER_LIGHT",
                     Rgb(H("4","7","5","5","6","9"))),
         BORDER_SUBTLE |->
             GetAttr(static_colors, "BORDER_SUBTLE", Rgb(Hex_1e293b))],
        static_colors)

\* The AttributeError of `static_colors.BG_PRIMARY`, read without a default
StaticRaises(static_colors) == "BG_PRIMARY" \notin DOMAIN static_colors

\* ------------------------------------------------------------ float64
\* Python floats are IEEE-754 doubles.  A double is modelled by its exact
\* value sign * m * 2^e with m a natural number below 2^53, and every
\* operation computes the exact result and rounds it to 53 significant
\* bits, ties to even.  Naturals are little-endian sequences of limbs to
\* base 2^15 with no leading zero limb (the empty sequence is 0).
LimbBits == 15

Base == 32768

MantissaBits == 53

RECURSIVE Pow2(_)
Pow2(k) == IF k = 0 THEN 1 ELSE 2 * Pow2(k - 1)

RECURSIVE BigTrim(_)
BigTrim(a) ==
    IF a = <<>> THEN <<>>
    ELSE IF a[Len(a)] = 0 THEN BigTrim(SubSeq(a, 1, Len(a) - 1)) ELSE a

BigOfInt(n) == BigTrim(<<n % Base, (n \div Base) % Base, n \div (Base * Base)>>)

RECURSIVE IntOfBig(_)
IntOfBig(a) == IF a = <<>> THEN 0 ELSE a[1] + Base * IntOfBig(Tail(a))

LimbAt(a, i) == IF i <= Len(a) THEN a[i] ELSE 0

RECURSIVE BigAddFrom(_, _, _, _)
BigAddFrom(a, b, i, carry) ==
    IF i > Len(a) /\ i > Len(b)
    THEN IF carry = 0 THEN <<>> ELSE <<carry>>
    ELSE <<(LimbAt(a, i) + LimbAt(b, i) + carry) % Base>>
         \o BigAddFrom(a, b, i + 1,
                       (LimbAt(a, i) + LimbAt(b, i) + carry) \div Base)

BigAdd(a, b) == BigAddFrom(a, b, 1, 0)

\* a - b for a >= b
RECURSIVE BigSubFrom(_, _, _, _)
BigSubFrom(a, b, i, borrow) ==
    IF i > Len(a) THEN <<>>
    ELSE <<(LimbAt(a, i) - LimbAt(b, i) - borrow + Base) % Base>>
         \o BigSubFrom(a, b, i + 1,
                       IF LimbAt(a, i) - LimbAt(b, i) - borrow < 0
                       THEN 1 ELSE 0)

BigSub(a, b) == BigTrim(BigSubFrom(a, b, 1, 0))

\* -1, 0 or 1 as a < b, a = b or a > b
RECURSIVE BigCmpFrom(_, _, _)
BigCmpFrom(a, b, i) ==
    IF i = 0 THEN 0
    ELSE IF a[i] < b[i] THEN -1
    ELSE IF a[i] > b[i] THEN 1
    ELSE BigCmpFrom(a, b, i - 1)

BigCmp(a, b) ==
    IF Len(a) < Len(b) THEN -1
    ELSE IF Len(a) > Len(b) THEN 1
    ELSE BigCmpFrom(a, b, Len(a))

\* a * d for a limb d
RECURSIVE BigMulLimbFrom(_, _, _, _)
BigMulLimbFrom(a, d, i, carry) ==
    IF i > Len(a)
    THEN IF carry = 0 THEN <<>> ELSE <<carry>>
    ELSE <<(a[i] * d + carry) % Base>>
         \o BigMulLimbFrom(a, d, i + 1, (a[i] * d + carry) \div Base)

BigMulLimb(a, d) == IF d = 0 THEN <<>> ELSE BigMulLimbFrom(a, d, 1, 0)

Zeros(n) == [i \in 1..n |-> 0]

BigShiftLimbs(a, n) == IF a = <<>> THEN <<>> ELSE Zeros(n) \o a

RECURSIVE BigMulFrom(_, _, _)
BigMulFrom(a, b, j) ==
    IF j > Len(b) THEN <<>>
    ELSE BigAdd(BigShiftLimbs(BigMulLimb(a, b[j]), j - 1),
                BigMulFrom(a, b, j + 1))

BigMul(a, b) == BigMulFrom(a, b, 1)

\* Quotient and remainder of a by a divisor d below the base, from the most
\* significant limb down
RECURSIVE BigDivLimbFrom(_, _, _, _, _)
BigDivLimbFrom(a, d, i, rem, quot) ==
    IF i = 0 THEN [q |-> BigTrim(quot), r |-> rem]
    ELSE BigDivLimbFrom(a, d, i - 1, (rem * Base + a[i]) % d,
                        <<(rem * Base + a[i]) \div d>> \o quot)

BigDivLimb(a, d) == BigDivLimbFrom(a, d, Len(a), 0, <<>>)

RECURSIVE BitLenLimb(_)
BitLenLimb(d) == IF d = 0 THEN 0 ELSE 1 + BitLenLimb(d \div 2)

BigBitLen(a) ==
    IF a = <<>> THEN 0
    ELSE LimbBits * (Len(a) - 1) + BitLenLimb(a[Len(a)])

BigShiftLeft(a, k) ==
    BigShiftLimbs(BigMulLimb(a, Pow2(k % LimbBits)), k \div LimbBits)

\* a shifted right by k bits, and whether a nonzero bit was shifted out
ShiftedOut(qr, lost) ==
    [q |-> qr.q, sticky |-> qr.r # 0 \/ \E i \in 1..Len(lost) : lost[i] # 0]

BigShiftRight(a, k) ==
    IF k \div LimbBits >= Len(a)
    THEN ShiftedOut([q |-> <<>>, r |-> 0], a)
    ELSE ShiftedOut(BigDivLimb(SubSeq(a, (k \div LimbBits) + 1, Len(a)),
                               Pow2(k % LimbBits)),
                    SubSeq(a, 1, k \div LimbBits))

BigIsOdd(a) == a # <<>> /\ a[1] % 2 = 1

FZero == [sign |-> 1, m |-> <<>>, e |-> 0]

\* The exact value sign * m * 2^e (and a little more if sticky) rounded to
\* the nearest double, ties to even
\* q is the 53 leading bits, guard the bit after them, above whether any
\* later bit is set
RoundHalf(sign, q, guard, above, e) ==
    [sign |-> sign,
     m |-> IF guard /\ (above \/ BigIsOdd(q)) THEN BigAdd(q, <<1>>) ELSE q,
     e |-> e]

RoundGuard(sign, g, e, sticky) ==
    RoundHalf(sign, BigShiftRight(g.q, 1).q, BigIsOdd(g.q),
              g.sticky \/ sticky, e)

RoundBits(sign, m, len, e, sticky) ==
    IF len <= MantissaBits THEN [sign |-> sign, m |-> m, e |-> e]
    ELSE RoundGuard(sign, BigShiftRight(m, len - MantissaBits - 1),
                    e + len - MantissaBits, sticky)

RoundF(sign, m, e, sticky) ==
    IF m = <<>> THEN FZero ELSE RoundBits(sign, m, BigBitLen(m), e, sticky)

\* float(n) for an integer n of small magnitude
FOfInt(n) ==
    IF n = 0 THEN FZero
    ELSE [sign |-> IF n < 0 THEN -1 ELSE 1,
          m |-> BigOfInt(IF n < 0 THEN -n ELSE n), e |-> 0]

FOne == FOfInt(1)

FNeg(a) == [a EXCEPT !.sign = -(a.sign)]

\* The double nearest to p / q for an integer p and a positive integer q
\* below the base: a decimal literal such as 0.2 (p = 2, q = 10), and the
\* quotient n / 255.0 of a color channel
QuotientBits == 75

RoundQuotient(sign, qr) == RoundF(sign, qr.q, -QuotientBits, qr.r # 0)

PyFloat(p, q) ==
    IF p = 0 THEN FZero
    ELSE RoundQuotient(IF p < 0 THEN -1 ELSE 1,
                       BigDivLimb(BigShiftLeft(
                                      BigOfInt(IF p < 0 THEN -p ELSE p),
                                      QuotientBits), q))

\* a + b
\* sa * ma * 2^e + sb * mb * 2^e
FAddAligned(sa, ma, sb, mb, e) ==
    IF sa = sb THEN RoundF(sa, BigAdd(ma, mb), e, FALSE)
    ELSE IF BigCmp(ma, mb) = 0 THEN FZero
    ELSE IF BigCmp(ma, mb) > 0 THEN RoundF(sa, BigSub(ma, mb), e, FALSE)
    ELSE RoundF(sb, BigSub(mb, ma), e, FALSE)

FAddAt(a, b, e) ==
    FAddAligned(a.sign, BigShiftLeft(a.m, a.e - e),
                b.sign, BigShiftLeft(b.m, b.e - e), e)

FAdd(a, b) ==
    IF a.m = <<>> THEN b
    ELSE IF b.m = <<>> THEN a
    ELSE FAddAt(a, b, IF a.e < b.e THEN a.e ELSE b.e)

\* a - b
FSub(a, b) == FAdd(a, FNeg(b))

\* a * b
FMul(a, b) == RoundF(a.sign * b.sign, BigMul(a.m, b.m), a.e + b.e, FALSE)

\* a < b
FIsNegative(a) == a.m # <<>> /\ a.sign = -1

FLt(a, b) == FIsNegative(FSub(a, b))

\* int(a): truncation toward zero
PyIntOfFloat(a) ==
    a.sign * IntOfBig(IF a.e >= 0 THEN BigShiftLeft(a.m, a.e)
                      ELSE BigShiftRight(a.m, -(a.e)).q)

\* ------------------------------------------------------ color math
\* Variant: the bytes are divided by 256
_hex_to_rgb_By256(hex_color) ==
    <<PyFloat(hex_color[1], 256), PyFloat(hex_color[2], 256),
      PyFloat(hex_color[3], 256)>>

\* DynamicColorPalette._hex_to_rgb: the channels of a HexColor are its
\* bytes divided by 255.0
_hex_to_rgb(hex_color) ==
    <<PyFloat(hex_color[1], 255), PyFloat(hex_color[2], 255),
      PyFloat(hex_color[3], 255)>>

\* Variant: the channel is not clamped
Clamp01_Unclamped(r) == r

\* max(0, min(1, r))
Clamp01(r) ==
    IF FLt(r, FOne) THEN (IF FLt(FZero, r) THEN r ELSE FZero) ELSE FOne

\* int(r * 255) of the clamped channel
ChannelByte(r) == PyIntOfFloat(FMul(Clamp01(r), FOfInt(255)))

\* DynamicColorPalette._rgb_to_hex: the color is the HexColor of
\* "#rrggbb", that is the three bytes
_rgb_to_hex(r, g, b) == <<ChannelByte(r), ChannelByte(g), ChannelByte(b)>>

\* Variant: the share of the distance to white is taken away
LightenChannel_Minus(r, amount) == FSub(r, FMul(FSub(FOne, r), amount))

\* r + (1 - r) * amount
LightenChannel(r, amount) == FAdd(r, FMul(FSub(FOne, r), amount))

LightenRgb(rgb, amount) ==
    _rgb_to_hex(LightenChannel(rgb[1], amount), LightenChannel(rgb[2], amount),
                LightenChannel(rgb[3], amount))

\* DynamicColorPalette._lighten_color
_lighten_color(color, amount) == LightenRgb(_hex_to_rgb(color), amount)

\* r * (1 - amount)
DarkenChannel(r, amount) == FMul(r, FSub(FOne, amount))

DarkenRgb(rgb, amount) ==
    _rgb_to_hex(DarkenChannel(rgb[1], amount), DarkenChannel(rgb[2], amount),
                DarkenChannel(rgb[3], amount))

\* DynamicColorPalette._darken_color
_darken_color(color, amount) == DarkenRgb(_hex_to_rgb(color), amount)

\* Variant: the factor itself is the amount
_adjust_color_ByFactor(color, factor) ==
    IF FLt(FOne, factor)
    THEN _lighten_color(color, factor)
    ELSE _darken_color(color, factor)

\* DynamicColorPalette._adjust_color
_adjust_color(color, factor) ==
    IF FLt(FOne, factor)
    THEN _lighten_color(color, FSub(factor, FOne))
    ELSE _darken_color(color, FSub(FOne, factor))

\* r * factor: toward black
BlendBlack(rgb, factor) ==
    _rgb_to_hex(FMul(rgb[1], factor), FMul(rgb[2], factor),
                FMul(rgb[3], factor))

\* r + (1 - r) * (1 - factor): toward white
BlendWhite(rgb, factor) == LightenRgb(rgb, FSub(FOne, factor))

\* Variant: the two blends are exchanged
_adjust_opacity_Exchanged(thm, color, factor) ==
    IF thm = "dark" THEN BlendWhite(_hex_to_rgb(color), factor)
    ELSE BlendBlack(_hex_to_rgb(color), factor)

\* DynamicColorPalette._adjust_opacity, with self.theme
_adjust_opacity(thm, color, factor) ==
    IF thm = "dark" THEN BlendBlack(_hex_to_rgb(color), factor)
    ELSE BlendWhite(_hex_to_rgb(color), factor)

\* ------------------------------------------------------- ColorConfig
\* schemas.py ColorConfig: five required str fields, four Optional[str]
DefaultColorConfig ==
    [primary |-> Hex_10b981, secondary |-> Hex_7c3aed, accent |-> Hex_14b8a6,
     background |-> Hex_0f172a, text |-> Hex_e5e7eb,
     muted |-> SomeStr(Hex_9ca3af), border |-> SomeStr(Hex_334155),
     tableHeader |-> SomeStr(Hex_1f2937), tableRowAlt |-> SomeStr(Hex_111827)]

RequiredColorFields == {"primary", "secondary", "accent", "background", "text"}
OptionalColorFields == {"muted", "border", "tableHeader", "tableRowAlt"}

\* The color strings a config holds (None holds none)
ColorStringsOf(cfg) ==
    {cfg[f] : f \in RequiredColorFields}
        \cup {cfg[f].val : f \in {g \in OptionalColorFields : cfg[g].some}}

HasMalformedColor(cfg) == \E s \in ColorStringsOf(cfg) : ~WellFormed(s)

\* The strings DynamicColorPalette.__init__ hands to HexColor, in the
\* order of the code: a falsy secondary/accent falls back to primary and
\* a falsy optional field is derived instead of parsed
ParsedStrings(cfg) ==
    <<cfg.primary>>
        \o (IF cfg.secondary # <<>> THEN <<cfg.secondary>> ELSE <<>>)
        \o (IF cfg.accent # <<>> THEN <<cfg.accent>> ELSE <<>>)
        \o <<cfg.background, cfg.text>>
        \o (IF TruthyOpt(cfg.muted) THEN <<cfg.muted.val>> ELSE <<>>)
        \o (IF TruthyOpt(cfg.border) THEN <<cfg.border.val>> ELSE <<>>)
        \o (IF TruthyOpt(cfg.tableHeader) THEN <<cfg.tableHeader.val>> ELSE <<>>)
        \o (IF TruthyOpt(cfg.tableRowAlt) THEN <<cfg.tableRowAlt.val>> ELSE <<>>)

NoPalette ==
    [source |-> "none", BG_PRIMARY |-> <<0, 0, 0>>,
     EMERALD_PRIMARY |-> <<0, 0, 0>>, SECONDARY |-> <<0, 0, 0>>,
     ACCENT |-> <<0, 0, 0>>, TEXT_WHITE |-> <<0, 0, 0>>]

\* DynamicColorPalette.__init__ from `# Backgrounds` on: the palette of
\* the parsed and derived seed colors
PaletteOf(thm, primary, secondary, accent, background, text, muted, border, table_header, table_alt) ==
    [source |-> "config",
     BG_PRIMARY |-> background,
     BG_SECONDARY |-> table_header,
     BG_CARD |-> table_alt,
     BG_ELEVATED |-> _adjust_color(background,
                                   IF thm = "dark" THEN PyFloat(7, 10)
                                   ELSE PyFloat(85, 100)),
     EMERALD_PRIMARY |-> primary,
     EMERALD_LIGHT |-> _lighten_color(primary, PyFloat(2, 10)),
     EMERALD_DARK |-> _darken_color(primary, PyFloat(3, 10)),
     EMERALD_GLOW |-> _lighten_color(primary, PyFloat(4, 10)),
     SECONDARY |-> secondary,
     ACCENT |-> accent,
     TEXT_WHITE |-> text,
     TEXT_GRAY_100 |-> _adjust_opacity(thm, text, PyFloat(9, 10)),
     TEXT_GRAY_300 |-> _adjust_opacity(thm, text, PyFloat(8, 10)),
     TEXT_GRAY_400 |-> muted,
     TEXT_GRAY_500 |-> _adjust_opacity(thm, muted, PyFloat(85, 100)),
     TEXT_GRAY_600 |-> _adjust_opacity(thm, muted, PyFloat(7, 10)),
     BORDER_DARK |-> border,
     BORDER_LIGHT |-> _adjust_color(border, PyFloat(9, 10)),
     BORDER_SUBTLE |-> _adjust_color(border, PyFloat(11, 10))]

\* DynamicColorPalette.__init__ with a config: the seed colors are parsed,
\* a falsy secondary or accent is the primary, and a falsy muted, border,
\* tableHeader or tableRowAlt is derived from text or background
FromConfig(cfg, thm) ==
    PaletteOf(thm,
        Rgb(cfg.primary),
        IF cfg.secondary # <<>> THEN Rgb(cfg.secondary) ELSE Rgb(cfg.primary),
        IF cfg.accent # <<>> THEN Rgb(cfg.accent) ELSE Rgb(cfg.primary),
        Rgb(cfg.background),
        Rgb(cfg.text),
        IF TruthyOpt(cfg.muted) THEN Rgb(cfg.muted.val)
        ELSE _adjust_color(Rgb(cfg.text), PyFloat(6, 10)),
        IF TruthyOpt(cfg.border) THEN Rgb(cfg.border.val)
        ELSE _adjust_color(Rgb(cfg.background),
                           IF thm = "dark" THEN PyFloat(8, 10)
                           ELSE PyFloat(9, 10)),
        IF TruthyOpt(cfg.tableHeader) THEN Rgb(cfg.tableHeader.val)
        ELSE _adjust_color(Rgb(cfg.background),
                           IF thm = "dark" THEN PyFloat(85, 100)
                           ELSE PyFloat(95, 100)),
        IF TruthyOpt(cfg.tableRowAlt) THEN Rgb(cfg.tableRowAlt.val)
        ELSE _adjust_color(Rgb(cfg.background),
                           IF thm = "dark" THEN PyFloat(95, 100)
                           ELSE PyFloat(98, 100)))

\* DynamicColorPalette(config, theme).  config is NoColors or a record
\* with some = TRUE; raised = TRUE is the ValueError of HexColor.
NoColors == [some |-> FALSE, val |-> DefaultColorConfig]
SomeColors(cfg) == [some |-> TRUE, val |-> cfg]

DynamicColorPalette(config, thm) ==
    IF config.some
    THEN IF \E i \in 1..Len(ParsedStrings(config.val)) :
               ~HexColor(ParsedStrings(config.val)[i]).ok
         THEN [raised |-> TRUE, palette |-> NoPalette]
         ELSE [raised |-> FALSE, palette |-> FromConfig(config.val, thm)]
    ELSE LET static_colors ==
                 IF thm = "light" THEN VentazoColorsLight ELSE VentazoColors
         IN IF StaticRaises(static_colors)
            THEN [raised |-> TRUE, palette |-> NoPalette]
            ELSE [raised |-> FALSE, palette |-> FromStatic(static_colors)]

\* ---------------------------------------------------------- sections
\* dict.get(key, default); a dict is a function from its keys
Get(d, key, default) == IF key \in DOMAIN d THEN d[key] ELSE default

EmptyDict == [k \in {} |-> TRUE]

\* schemas.py SectionType
SectionType ==
    {"cover", "summary", "details", "totals", "terms", "signature",
     "custom_text"}

\* A type string that is not a member of SectionType
FutureType == "appendix"

\* schemas.py get_default_sections
get_default_sections ==
    << [id |-> "cover", type |-> "cover", enabled |-> TRUE, order |-> 0,
        config |-> [showLogo |-> TRUE, showDate |-> TRUE,
                    showQuoteNumber |-> TRUE, showClientAddress |-> TRUE]],
       [id |-> "summary", type |-> "summary", enabled |-> TRUE, order |-> 1,
        config |-> EmptyDict],
       [id |-> "details", type |-> "details", enabled |-> TRUE, order |-> 2,
        config |-> [columns |-> 4, showDescription |-> TRUE,
                    showQuantity |-> TRUE, showUnitPrice |-> TRUE,
                    showTotal |-> TRUE]],
       [id |-> "totals", type |-> "totals", enabled |-> TRUE, order |-> 3,
        config |-> [showSubtotal |-> TRUE, showTax |-> TRUE,
                    showDiscount |-> TRUE]],
       [id |-> "terms", type |-> "terms", enabled |-> TRUE, order |-> 4,
        config |-> [termsTitle |-> "Terminos y Condiciones"]],
       [id |-> "signature", type |-> "signature", enabled |-> TRUE,
        order |-> 5,
        config |-> [showSignatureLine |-> TRUE, showDateLine |-> TRUE,
                    signatureLabel |-> "Firma Autorizada"]] >>

\* `sections if sections is not None else ...` handed the request's list
SectionsOrDefault_NoneOnly(secs) == secs

\* `sections or get_default_sections()` (an empty list is falsy); the
\* handler's `request.sections if request.sections else None` passes None
\* for an empty list, which takes the same branch
SectionsOrDefault(secs) ==
    IF secs # <<>> THEN secs ELSE get_default_sections

\* ------------------------------------------------------ layout elements
\* An element is [kind, text, rows]: text is a copied string; rows holds the
\* cells of a table (and the parsed text of a paragraph) and is <<>> for
\* the elements whose content is not looked into.  A cell is a label and a
\* sequence of string pieces.
Cell(s, v) == [s |-> s, v |-> v]

Spacer == [kind |-> "Spacer", text |-> "", rows |-> <<>>]
AccentLine == [kind |-> "AccentLine", text |-> "", rows |-> <<>>]
PageBreak == [kind |-> "PageBreak", text |-> "", rows |-> <<>>]
Paragraph(text) == [kind |-> "Paragraph", text |-> text, rows |-> <<>>]
Table(text, rows) == [kind |-> "Table", text |-> text, rows |-> rows]
\* platypus Image(path): the file is opened when the document is built
Image(path) == [kind |-> "Image", text |-> path, rows |-> <<>>]
\* flowables.py CompanyLogo: draws the image, or a placeholder box with
\* the text LOGO when drawing it raises
CompanyLogo(path) == [kind |-> "CompanyLogo", text |-> path, rows |-> <<>>]

\* Paragraph(text) parses its markup when constructed and raises
\* ValueError on malformed markup
BadMarkup == "<b>unclosed"

\* os.path.exists over the temporary files
Exists(files, path) == \E f \in files : f.path = path

\* A file the renderer can read as a raster image
Readable(files, path) ==
    \E f \in files : f.path = path /\ f.valid /\ f.ext # ".svg"

\* The builders: each returns [raised, elements].  self is the generator
\* (quote, tenant, colors, logo_path, sections, elements) and files the
\* file system; config is the descriptor's own config.
Built(elems) == [raised |-> FALSE, elements |-> elems]
Raised == [raised |-> TRUE, elements |-> <<>>]

_build_cover_section(self, files, config) ==
    IF self.quote.title = BadMarkup
    THEN Raised
    ELSE Built(
        <<Spacer>>
        \o (IF Get(config, "showLogo", TRUE) /\ Truthy(self.logo_path)
               /\ Exists(files, self.logo_path)
            THEN <<Image(self.logo_path), Spacer>> ELSE <<>>)
        \o <<Paragraph(Get(self.tenant, "name", "Empresa")), Spacer,
             Paragraph("COTIZACION"), Spacer>>
        \o (IF Get(config, "showQuoteNumber", TRUE)
            THEN <<Paragraph(self.quote.quoteNumber)>> ELSE <<>>)
        \o <<Spacer, Paragraph(self.quote.title), Spacer, AccentLine, Spacer>>
        \o (IF Get(config, "showDate", TRUE)
            THEN <<Paragraph("meta")>> ELSE <<>>)
        \o <<Spacer,
             Table(IF Get(config, "showClientAddress", TRUE)
                      /\ self.quote.billingAddress
                   THEN "prepared+address" ELSE "prepared", <<>>),
             Spacer, Paragraph("DOCUMENTO CONFIDENCIAL"), PageBreak>>)

\* A summary builder that looks at what the other sections have produced
_build_summary_section_Sibling(self, files, config) ==
    Built(
        (IF self.elements # <<>> THEN <<PageBreak>> ELSE <<>>)
        \o <<Paragraph("RESUMEN"), AccentLine, Spacer>>
        \o (IF self.quote.description # ""
            THEN <<Paragraph(self.quote.description), Spacer>> ELSE <<>>)
        \o <<Table("kpi", <<>>), Spacer>>)

_build_summary_section(self, files, config) ==
    IF self.quote.description = BadMarkup
    THEN Raised
    ELSE Built(
        <<Paragraph("RESUMEN"), AccentLine, Spacer>>
        \o (IF self.quote.description # ""
            THEN <<Paragraph(self.quote.description), Spacer>> ELSE <<>>)
        \o <<Table("kpi", <<>>), Spacer>>)

\* ---- number formatting.  Amounts of money are held in cents.
Abs(n) == IF n < 0 THEN -n ELSE n

RECURSIVE DecimalOf(_)
DecimalOf(n) ==
    IF n < 10 THEN <<HexDigits[n + 1]>>
    ELSE DecimalOf(n \div 10) \o <<HexDigits[(n % 10) + 1]>>

\* The ',' option of the format spec: groups of three digits
RECURSIVE Grouped(_)
Grouped(n) ==
    IF n < 1000 THEN DecimalOf(n)
    ELSE Grouped(n \div 1000)
            \o <<",", HexDigits[((n \div 100) % 10) + 1],
                 HexDigits[((n \div 10) % 10) + 1], HexDigits[(n % 10) + 1]>>

\* _format_currency: f"${amount:,.2f}" (the currency argument is unused)
_format_currency(amount) ==
    <<"$">> \o (IF amount < 0 THEN <<"-">> ELSE <<>>)
        \o Grouped(Abs(amount) \div 100)
        \o <<".", HexDigits[((Abs(amount) \div 10) % 10) + 1],
             HexDigits[(Abs(amount) % 10) + 1]>>

\* str(x) of a float that holds a whole number
PyStrFloat(n) == DecimalOf(n) \o <<".", "0">>

\* ---- DETAILS
TruncateAt == 80

\* The cut made one character late
DescText_OffByOne(description) ==
    IF Len(description) > TruncateAt + 1
    THEN SubSeq(description, 1, TruncateAt) \o <<"...">>
    ELSE description

\* description[:80] + "..." if len(description) > 80 else description
DescText(description) ==
    IF Len(description) > TruncateAt
    THEN SubSeq(description, 1, TruncateAt) \o <<"...">>
    ELSE description

\* header = ['DESCRIPCION'] and one more label per flag that is set
DetailsHeader(config) ==
    <<Cell("DESCRIPCION", <<>>)>>
        \o (IF Get(config, "showQuantity", TRUE)
            THEN <<Cell("CANT.", <<>>)>> ELSE <<>>)
        \o (IF Get(config, "showUnitPrice", TRUE)
            THEN <<Cell("PRECIO UNIT.", <<>>)>> ELSE <<>>)
        \o (IF Get(config, "showTotal", TRUE)
            THEN <<Cell("SUBTOTAL", <<>>)>> ELSE <<>>)

\* A row whose subtotal cell goes with the unit-price flag
ItemRow_SharedFlag(item, config) ==
    <<Cell(item.name,
           IF Get(config, "showDescription", TRUE) /\ item.description # <<>>
           THEN DescText(item.description) ELSE <<>>)>>
        \o (IF Get(config, "showQuantity", TRUE)
            THEN <<Cell("", PyStrFloat(item.quantity))>> ELSE <<>>)
        \o (IF Get(config, "showUnitPrice", TRUE)
            THEN <<Cell("", _format_currency(item.unitPrice)),
                   Cell("", _format_currency(item.subtotal))>> ELSE <<>>)

\* One row of the items table: the name (with the description under it
\* when it is shown and not empty) and one cell per flag that is set
ItemRow(item, config) ==
    <<Cell(item.name,
           IF Get(config, "showDescription", TRUE) /\ item.description # <<>>
           THEN DescText(item.description) ELSE <<>>)>>
        \o (IF Get(config, "showQuantity", TRUE)
            THEN <<Cell("", PyStrFloat(item.quantity))>> ELSE <<>>)
        \o (IF Get(config, "showUnitPrice", TRUE)
            THEN <<Cell("", _format_currency(item.unitPrice))>> ELSE <<>>)
        \o (IF Get(config, "showTotal", TRUE)
            THEN <<Cell("", _format_currency(item.subtotal))>> ELSE <<>>)

_build_details_section(self, files, config) ==
    LET items == self.quote.items
    IN Built(
        <<Paragraph("DETALLE"), AccentLine, Spacer>>
        \o (IF items = <<>>
            THEN <<Paragraph("No hay lineas en esta cotizacion.")>>
            ELSE <<Table("items",
                         <<DetailsHeader(config)>>
                             \o [i \in 1..Len(items) |->
                                    ItemRow(items[i], config)]),
                   Spacer>>))

\* ---- TOTALS
\* A discount line for any amount
ShowDiscountLine_AnyAmount(config, discount_amount) ==
    Get(config, "showDiscount", TRUE)

\* config.get('showDiscount', True) and discount_amount > 0
ShowDiscountLine(config, discount_amount) ==
    Get(config, "showDiscount", TRUE) /\ discount_amount > 0

\* config.get('showTax', True) and tax_amount > 0
ShowTaxLine(config, tax_amount) ==
    Get(config, "showTax", TRUE) /\ tax_amount > 0

_build_totals_section(self, files, config) ==
    LET q == self.quote
        totals_data ==
            (IF Get(config, "showSubtotal", TRUE)
             THEN << <<Cell("Subtotal", <<>>),
                       Cell("", _format_currency(q.subtotal))>> >>
             ELSE <<>>)
            \o (IF ShowDiscountLine(config, q.discountAmount)
                THEN << <<Cell("Descuento", <<>>),
                          Cell("", <<"-">>
                                      \o _format_currency(q.discountAmount))>> >>
                ELSE <<>>)
            \o (IF ShowTaxLine(config, q.taxAmount)
                THEN << <<Cell("IVA", PyStrFloat(q.taxRate) \o <<"%">>),
                          Cell("", _format_currency(q.taxAmount))>> >>
                ELSE <<>>)
            \o << <<Cell("TOTAL", <<q.currency>>),
                     Cell("", _format_currency(q.total))>> >>
    IN Built(<<Table("totals", totals_data), Spacer>>)

_build_terms_section(self, files, config) ==
    IF self.quote.terms # "" \/ self.quote.notes # ""
    THEN Built(
        <<Paragraph(Get(config, "termsTitle", "TERMINOS Y CONDICIONES")),
          AccentLine, Spacer>>
        \o (IF self.quote.terms # ""
            THEN <<Paragraph(self.quote.terms), Spacer>> ELSE <<>>)
        \o (IF self.quote.notes # ""
            THEN <<Paragraph("Notas")>> ELSE <<>>)
        \o <<Spacer>>)
    ELSE Built(<<>>)

_build_signature_section(self, files, config) ==
    Built(
        <<Paragraph("ACEPTACION"), AccentLine, Spacer,
          Paragraph("acceptance"), Spacer,
          Table(IF Get(config, "showDateLine", TRUE)
                THEN "signature+date" ELSE "signature", <<>>)>>)

\* ---- CUSTOM_TEXT.  content is a sequence of characters.
NL == "\n"

\* The characters str.strip() removes
Whitespace == {" ", "\t", "\r", NL}

\* content.split('\n'): the pieces between the newlines, empty ones kept;
\* cur is the piece being read
RECURSIVE SplitAcc(_, _)
SplitAcc(chars, cur) ==
    IF chars = <<>> THEN <<cur>>
    ELSE IF Head(chars) = NL
         THEN <<cur>> \o SplitAcc(Tail(chars), <<>>)
         ELSE SplitAcc(Tail(chars), Append(cur, Head(chars)))

SplitLines(content) == SplitAcc(content, <<>>)

\* A test that keeps every line that has a character
KeepsLine_NonEmpty(line) == line # <<>>

\* `if line.strip()`: the line has a character that is not whitespace
KeepsLine(line) == \E i \in 1..Len(line) : line[i] \notin Whitespace

\* Paragraph(line, ...) of a line of content
LineParagraph(line) ==
    [kind |-> "Paragraph", text |-> "line", rows |-> << <<Cell("", line)>> >>]

_build_custom_text_section(self, files, config) ==
    LET title == Get(config, "title", "")
        content == Get(config, "content", <<>>)
        lines == SelectSeq(SplitLines(content), KeepsLine)
    IN Built(
        (IF title # ""
         THEN <<Paragraph(title), AccentLine, Spacer>> ELSE <<>>)
        \o (IF content # <<>>
            THEN [i \in 1..Len(lines) |-> LineParagraph(lines[i])]
                    \o <<Spacer>>
            ELSE <<>>))

\* ---- the page decorator.  A drawing operation is [op, text], text the
\* pieces of the string drawn.
Draw(op) == [op |-> op, text |-> <<>>]
DrawText(op, text) == [op |-> op, text |-> text]

\* A footer that does not look at the website
footer_parts_NoWebsite(tenant) ==
    LET contact ==
            (IF Truthy(Get(tenant, "phone", NoneVal))
             THEN <<tenant.phone>> ELSE <<>>)
            \o (IF Truthy(Get(tenant, "email", NoneVal))
                THEN <<tenant.email>> ELSE <<>>)
    IN <<Get(tenant, "name", "Ventazo CRM")>>
          \o (IF contact = <<>> THEN <<"Documento Confidencial">> ELSE contact)

\* footer_parts: the tenant name, then the phone, email and website that
\* are truthy, or the confidential text when there is none of them
footer_parts(tenant) ==
    LET contact ==
            (IF Truthy(Get(tenant, "phone", NoneVal))
             THEN <<tenant.phone>> ELSE <<>>)
            \o (IF Truthy(Get(tenant, "email", NoneVal))
                THEN <<tenant.email>> ELSE <<>>)
            \o (IF Truthy(Get(tenant, "website", NoneVal))
                THEN <<tenant.website>> ELSE <<>>)
    IN <<Get(tenant, "name", "Ventazo CRM")>>
          \o (IF contact = <<>> THEN <<"Documento Confidencial">> ELSE contact)

\* A header drawn on every page
DrawsHeader_EveryPage(page) == page >= 1

\* `if doc.page > 1:`
DrawsHeader(page) == page > 1

\* `if self.theme == "dark":`
DrawsGradient(thm) == thm = "dark"

\* _add_page_background(canvas, doc): what is drawn on page doc.page
_add_page_background(self, page) ==
    <<Draw("background")>>
        \o (IF DrawsGradient(self.theme) THEN <<Draw("gradient")>> ELSE <<>>)
        \o <<Draw("accent_line")>>
        \o (IF DrawsHeader(page)
            THEN <<Draw("header_rule"),
                   DrawText("page_number", <<"Pagina ">> \o DecimalOf(page)),
                   DrawText("quote_number", <<self.quote.quoteNumber>>)>>
            ELSE <<>>)
        \o <<Draw("footer_rule"), DrawText("footer", footer_parts(self.tenant))>>

\* _get_section_builder: builders.get(section_type); "None" when the type
\* is not a key of the table
_get_section_builder(section_type) ==
    IF section_type \in SectionType THEN section_type ELSE NoneVal

\* builder(section.config)
CallBuilder(builder, self, files, config) ==
    CASE builder = "cover" -> _build_cover_section(self, files, config)
      [] builder = "summary" -> _build_summary_section(self, files, config)
      [] builder = "details" -> _build_details_section(self, files, config)
      [] builder = "totals" -> _build_totals_section(self, files, config)
      [] builder = "terms" -> _build_terms_section(self, files, config)
      [] builder = "signature" ->
             _build_signature_section(self, files, config)
      [] builder = "custom_text" ->
             _build_custom_text_section(self, files, config)

\* sorted(xs, key=lambda x: x.order): Python's sort is stable, so an
\* element is inserted after the elements whose key is <= its own
\* An unstable insertion: the element goes before the elements whose key
\* equals its own
RECURSIVE InsertByOrder_Unstable(_, _)
InsertByOrder_Unstable(x, sorted) ==
    IF sorted = <<>> THEN <<x>>
    ELSE IF Head(sorted).order < x.order
         THEN <<Head(sorted)>> \o InsertByOrder_Unstable(x, Tail(sorted))
         ELSE <<x>> \o sorted

RECURSIVE InsertByOrder(_, _)
InsertByOrder(x, sorted) ==
    IF sorted = <<>> THEN <<x>>
    ELSE IF Head(sorted).order <= x.order
         THEN <<Head(sorted)>> \o InsertByOrder(x, Tail(sorted))
         ELSE <<x>> \o sorted

RECURSIVE SortedByOrder(_)
SortedByOrder(xs) ==
    IF xs = <<>> THEN <<>>
    ELSE InsertByOrder(xs[Len(xs)], SortedByOrder(SubSeq(xs, 1, Len(xs) - 1)))

\* The filter left out
EnabledOnly_NoFilter(secs) == secs

\* [s for s in self.sections if s.enabled]
EnabledOnly(secs) == SelectSeq(secs, LAMBDA s : s.enabled)

\* ------------------------------------------------------------ requests
\* QuoteData fields the builders read (model_dump of request.quote)
\* A description of n characters, no two neighbours alike
DescOfLen(n) == [i \in 1..n |-> HexDigits[(i % 16) + 1]]

\* QuoteLineItem (model_dump); a None or empty description is <<>>
LineItem(name, description, quantity, unitPrice) ==
    [name |-> name, description |-> description, quantity |-> quantity,
     unitPrice |-> unitPrice, subtotal |-> quantity * unitPrice]

RichQuote ==
    [quoteNumber |-> "COT-0007", title |-> "Propuesta", description |-> "desc",
     items |-> <<LineItem("Servicio", DescOfLen(3), 2, 125050)>>,
     terms |-> "terms", notes |-> "notes", billingAddress |-> TRUE,
     currency |-> "MXN", subtotal |-> 250100, discountAmount |-> 5000,
     taxRate |-> 16, taxAmount |-> 39216, total |-> 284316]

SparseQuote ==
    [quoteNumber |-> "COT-0008", title |-> "Propuesta", description |-> "",
     items |-> <<>>, terms |-> "", notes |-> "", billingAddress |-> FALSE,
     currency |-> "MXN", subtotal |-> 0, discountAmount |-> 0,
     taxRate |-> 16, taxAmount |-> 0, total |-> 0]

\* A quote whose title is not valid paragraph markup
BadTitleQuote == [RichQuote EXCEPT !.title = BadMarkup]

\* TenantData (model_dump); request.tenant is None when some = FALSE
TenantWith(logoUrl, phone) ==
    [some |-> TRUE,
     val |-> [name |-> "Acme", logoUrl |-> logoUrl, phone |-> phone,
              email |-> NoneVal, website |-> NoneVal]]

NoTenant ==
    [some |-> FALSE,
     val |-> [name |-> "", logoUrl |-> NoneVal, phone |-> NoneVal,
              email |-> NoneVal, website |-> NoneVal]]

LogoUrl == "https://cdn.example/logo"

\* A tenant with the given contact fields and no logo
TenantContact(phone, email, website) ==
    [some |-> TRUE,
     val |-> [name |-> "Acme", logoUrl |-> NoneVal, phone |-> phone,
              email |-> email, website |-> website]]

Tenants ==
    {NoTenant, TenantWith(NoneVal, NoneVal), TenantWith("", "555"),
     TenantWith(LogoUrl, NoneVal)}

\* StyleConfig; request.styles is None when some = FALSE
NoStyles == [some |-> FALSE, val |-> [theme |-> "dark", colors |-> NoColors]]
SomeStyles(thm, cols) == [some |-> TRUE, val |-> [theme |-> thm, colors |-> cols]]

\* theme is a free str in StyleConfig and GeneratePDFRequest
Themes == {"dark", "light", "sepia"}

\* The values tried in each color field
RequiredColorValues ==
    {Hex_ff0000, Hex_ffffff, Bad_NonHex, Bad_Short, Bad_NoHash, Bad_Decimal,
     Bad_Empty}

OptionalColorValues ==
    {NoneStr} \cup {SomeStr(s) : s \in RequiredColorValues}

\* ColorConfigs that differ from the default in at most one field
ColorConfigs ==
    {DefaultColorConfig}
        \cup {[DefaultColorConfig EXCEPT ![f] = v] :
                 f \in RequiredColorFields, v \in RequiredColorValues}
        \cup {[DefaultColorConfig EXCEPT ![f] = v] :
                 f \in OptionalColorFields, v \in OptionalColorValues}

StyleChoices ==
    {NoStyles}
        \cup {SomeStyles(t, NoColors) : t \in Themes}
        \cup {SomeStyles(t, SomeColors(c)) : t \in Themes, c \in ColorConfigs}

\* Section descriptors as they arrive in the request body: `type` is still
\* a raw string there
RawTypes == SectionType \cup {FutureType}

\* A config that sets the recognized keys of a type away from their defaults
AltConfig(type) ==
    CASE type = "cover" ->
             [showLogo |-> FALSE, showDate |-> FALSE,
              showQuoteNumber |-> FALSE, showClientAddress |-> FALSE]
      [] type = "details" -> [showDescription |-> FALSE, showTotal |-> FALSE]
      [] type = "totals" -> [showSubtotal |-> FALSE, showDiscount |-> FALSE]
      [] type = "terms" -> [termsTitle |-> "Condiciones"]
      [] type = "signature" ->
             [signatureLabel |-> "Firma", showDateLine |-> FALSE]
      [] type = "custom_text" ->
             [title |-> "Anexo", content |-> <<"u", NL, NL, "d">>]
      [] OTHER -> [unused |-> TRUE]

SectionIds == <<"s1", "s2", "s3", "s4", "s5">>

\* Descriptors with the default config take every enabled flag and order;
\* descriptors with the alternative config are enabled, with order 0
RawDescriptors(types) ==
    [type : types, enabled : BOOLEAN, order : 0..MaxOrder, alt : {FALSE}]
        \cup [type : types, enabled : {TRUE}, order : {0}, alt : {TRUE}]

\* The types used in the lists of more than one descriptor
ListTypes == {"cover", "summary", "custom_text", FutureType}

MakeSections(raw) ==
    [i \in 1..Len(raw) |->
        [id |-> SectionIds[i], type |-> raw[i].type,
         enabled |-> raw[i].enabled, order |-> raw[i].order,
         config |-> IF raw[i].alt THEN AltConfig(raw[i].type)
                    ELSE EmptyDict]]

SectionLists ==
    {MakeSections(raw) :
        raw \in SeqUpTo(RawDescriptors(ListTypes), MaxSections)
                   \cup SeqUpTo(RawDescriptors(RawTypes), 1)}

\* ------------------------------------------------- the logo download
ContentTypes == {"image/png", "image/jpeg", "image/svg+xml", "text/html"}

\* `sub in content_type`
Contains(content_type, sub) ==
    <<content_type, sub>> \in
        {<<"image/png", "png">>, <<"image/jpeg", "jpeg">>,
         <<"image/svg+xml", "svg">>}

\* download_logo: the suffix chosen for the temporary file
ExtFor(content_type) ==
    IF Contains(content_type, "png") THEN ".png"
    ELSE IF Contains(content_type, "jpeg") \/ Contains(content_type, "jpg")
         THEN ".jpg"
         ELSE IF Contains(content_type, "svg") THEN ".svg" ELSE ".png"

\* What the remote server and the local disk do during one download:
\* status 0 is a network exception or a timeout, write = FALSE an OSError
\* while the body is written, valid = FALSE a body that is not an image
NoFetch == [status |-> -1, ctype |-> "", valid |-> FALSE, write |-> FALSE]

FetchResults ==
    {[status |-> 0, ctype |-> "", valid |-> FALSE, write |-> FALSE],
     [status |-> 404, ctype |-> "text/html", valid |-> FALSE, write |-> FALSE]}
        \cup [status : {200}, ctype : ContentTypes, valid : BOOLEAN,
              write : BOOLEAN]

\* tempfile.mkstemp(suffix=ext) returns a fresh path
TmpPath(ext) ==
    CASE ext = ".png" -> "/tmp/tmpa1.png"
      [] ext = ".jpg" -> "/tmp/tmpa1.jpg"
      [] ext = ".svg" -> "/tmp/tmpa1.svg"

\* ------------------------------------------------------------- state
VARIABLES
    request,          \* the GeneratePDFRequest body and the endpoint called
    pc,               \* the handler's position
    logo_path,        \* handler local, also generator.logo_path
    files,            \* temporary files that exist
    fetch,            \* what the logo download met
    quote, tenant, theme, sections, colors, elements, \* QuotePDFGenerator
    sorted_sections,  \* generate(): the filtered, sorted list
    idx,              \* generate(): position of the section loop
    calls,            \* ids of the descriptors whose builder was called
    pdf_bytes,        \* generate()'s return value
    exc,              \* the exception caught by the handler
    response,         \* what the client receives
    run,              \* generate() calls started on the generator
    prev,             \* what the call of generate() before this one returned
    hs,               \* two handlers on one event loop: each one's locals
    disk,             \* two handlers on one event loop: the temporary files
    seed,             \* color math: the color the operations start from
    cur,              \* color math: the color the last operation returned
    prevc,            \* color math: the color the last operation was given
    hist,             \* color math: the operations applied, in order
    stdin,            \* MCP server: the lines and bodies not yet read
    stdout,           \* MCP server: the responses written
    stderr,           \* MCP server: the errors main() reported
    mpc,              \* MCP server: main()'s position
    line,             \* read_request(): the line read last
    headers,          \* read_request(): the headers parsed so far
    rpc,              \* main(): the request read_request() returned
    consumed,         \* the requests read_request() has returned, in order
    dargs,            \* predict_demand: the arguments of the call
    pd                \* predict_demand: its locals and its return value

vars ==
    <<request, pc, logo_path, files, fetch, quote, tenant, theme, sections,
      colors, elements, sorted_sections, idx, calls, pdf_bytes, exc,
      response, run, prev, hs, disk, seed, cur, prevc, hist, stdin, stdout,
      stderr, mpc, line, headers, rpc, consumed, dargs, pd>>

genVars == <<quote, tenant, theme, sections, colors>>
loopVars == <<elements, sorted_sections, idx, calls>>
callVars == <<run, prev>>
pairVars == <<hs, disk>>
colorVars == <<seed, cur, prevc, hist>>
mcpVars == <<stdin, stdout, stderr, mpc, line, headers, rpc, consumed>>
demandVars == <<dargs, pd>>
auxVars == <<colorVars, mcpVars, demandVars>>

NoQuote ==
    [quoteNumber |-> "", title |-> "", description |-> "", items |-> <<>>,
     terms |-> "", notes |-> "", billingAddress |-> FALSE,
     currency |-> "", subtotal |-> 0, discountAmount |-> 0, taxRate |-> 0,
     taxAmount |-> 0, total |-> 0]

NoBytes == [built |-> FALSE, stream |-> <<>>, pages |-> <<>>]
NoContent == [encoding |-> "none", data |-> NoBytes]
NoResponse ==
    [status |-> 0, media |-> "", content |-> NoContent, detail |-> <<>>]

Endpoints == {"/api/v1/quotes/pdf", "/api/v1/quotes/pdf/preview"}

MakeRequest(ep, q, t, secs, st, thm) ==
    [endpoint |-> ep, quote |-> q, tenant |-> t, sections |-> secs,
     styles |-> st, theme |-> thm]

\* Requests that vary the section list
SectionRequests ==
    {MakeRequest("/api/v1/quotes/pdf", RichQuote, NoTenant, s, NoStyles,
                 "dark") : s \in SectionLists}

\* Requests that vary the tenant, the quote and the endpoint
LogoSectionLists ==
    {<<>>,
     MakeSections(<<[type |-> "cover", enabled |-> TRUE, order |-> 0,
                     alt |-> TRUE]>>),
     MakeSections(<<[type |-> "cover", enabled |-> TRUE, order |-> 1,
                     alt |-> FALSE],
                    [type |-> "summary", enabled |-> TRUE, order |-> 0,
                     alt |-> FALSE]>>),
     MakeSections(<<[type |-> "signature", enabled |-> TRUE, order |-> 1,
                     alt |-> FALSE],
                    [type |-> "terms", enabled |-> FALSE, order |-> 0,
                     alt |-> FALSE],
                    [type |-> "cover", enabled |-> TRUE, order |-> 0,
                     alt |-> FALSE]>>)}

LogoRequests ==
    {MakeRequest(ep, q, t, s, NoStyles, "dark") :
        ep \in Endpoints, q \in {RichQuote, SparseQuote, BadTitleQuote},
        t \in Tenants, s \in LogoSectionLists}

\* Requests that vary the styles and the legacy theme
StyleRequests ==
    {MakeRequest("/api/v1/quotes/pdf", RichQuote, NoTenant, <<>>, st, thm) :
        st \in StyleChoices, thm \in Themes}

\* One enabled descriptor with a config of its own
Descriptor(id, type, config) ==
    [id |-> id, type |-> type, enabled |-> TRUE, order |-> 0,
     config |-> config]

\* Configs that switch off any of the given flags (an absent flag is on)
FlagsOff(flags) == UNION {[S -> {FALSE}] : S \in SUBSET flags}

\* Requests that vary the amounts of the quote and the TOTALS config
TotalsQuotes ==
    {[RichQuote EXCEPT !.discountAmount = d, !.taxAmount = t,
                       !.currency = c] :
        d \in {-100, 0, 5000}, t \in {0, 39216}, c \in {"MXN", "USD"}}

TotalsRequests ==
    {MakeRequest("/api/v1/quotes/pdf", q, NoTenant,
                 <<Descriptor("t1", "totals", cfg)>>, NoStyles, "dark") :
        q \in TotalsQuotes,
        cfg \in FlagsOff({"showSubtotal", "showDiscount", "showTax"})}

\* Requests that vary the line items and the DETAILS config
DescLens == {0, 1} \cup (79..MaxDescLen)

DetailsFlags ==
    {"showDescription", "showQuantity", "showUnitPrice", "showTotal"}

DetailsConfigs == {EmptyDict} \cup [DetailsFlags -> BOOLEAN]

ItemLists ==
    {<<LineItem("Servicio", DescOfLen(n), 2, 125050)>> : n \in DescLens}
        \cup {<<LineItem("Servicio", DescOfLen(80), 1, 100),
                LineItem("Soporte", DescOfLen(81), 3, 123456789)>>}

DetailsRequests ==
    {MakeRequest("/api/v1/quotes/pdf", [RichQuote EXCEPT !.items = items],
                 NoTenant, <<Descriptor("d1", "details", cfg)>>, NoStyles,
                 "dark") :
        items \in ItemLists, cfg \in DetailsConfigs}

\* Requests that vary the content of a CUSTOM_TEXT section
ContentChars == {"a", "b", " ", NL}

Contents == SeqUpTo(ContentChars, MaxContentLen)

CustomTextConfigs ==
    {[content |-> c] : c \in Contents}
        \cup {[title |-> "Anexo", content |-> c] :
                 c \in SeqUpTo(ContentChars, 1)}
        \cup {[title |-> "Anexo"], EmptyDict}

CustomTextRequests ==
    {MakeRequest("/api/v1/quotes/pdf", SparseQuote, NoTenant,
                 <<Descriptor("x1", "custom_text", cfg)>>, NoStyles, "dark") :
        cfg \in CustomTextConfigs}

\* Requests that vary the tenant's contact fields and the theme
ContactTenants ==
    {NoTenant, TenantContact("", "", "")}
        \cup {TenantContact(p, e, w) :
                 p \in {NoneVal, "555-0100"}, e \in {NoneVal, "a@acme.mx"},
                 w \in {NoneVal, "acme.mx"}}

DecorRequests ==
    {MakeRequest("/api/v1/quotes/pdf", SparseQuote, t,
                 <<Descriptor("s1", "summary", EmptyDict)>>, NoStyles, thm) :
        t \in ContactTenants, thm \in {"dark", "light"}}

Requests ==
    SectionRequests \cup LogoRequests \cup StyleRequests
        \cup TotalsRequests \cup DetailsRequests \cup CustomTextRequests
        \cup DecorRequests

\* ------------------------------------------------ MCP server (stdio)
\* The most messages on standard input
MaxMessages == 2

\* request.get("id"): the id of a request, None when it has none
NoId == [some |-> FALSE, val |-> 0]
SomeId(n) == [some |-> TRUE, val |-> n]

\* The "params" member of a request: absent, null, or an object with
\* "name" and "arguments"
ParamsAbsent == [kind |-> "absent", name |-> NoneVal, arguments |-> EmptyDict]
ParamsNull == [kind |-> "null", name |-> NoneVal, arguments |-> EmptyDict]
ParamsObject(name, arguments) ==
    [kind |-> "object", name |-> name, arguments |-> arguments]

\* A parsed request body; chars is the length of its JSON text
Rpc(method, id, params, chars) ==
    [method |-> method, id |-> id, params |-> params, chars |-> chars]

NoRpc == Rpc("", NoId, ParamsAbsent, 0)

\* The kinds of message a client sends
MessageKinds ==
    {"initialize", "tools/list", "call_cities", "call_demand_missing",
     "call_weather_extra", "call_unknown_tool", "call_null_params",
     "notify_initialized", "notify_cancelled", "resources/list", "newline"}

\* The request of each kind, with the id the client gives it
Message(kind, n) ==
    CASE kind = "initialize" ->
             Rpc("initialize", SomeId(n), ParamsObject(NoneVal, EmptyDict), 58)
      [] kind = "tools/list" -> Rpc("tools/list", SomeId(n), ParamsAbsent, 46)
      [] kind = "call_cities" ->
             Rpc("tools/call", SomeId(n),
                 ParamsObject("get_host_cities", EmptyDict), 97)
      [] kind = "call_demand_missing" ->
             Rpc("tools/call", SomeId(n),
                 ParamsObject("predict_demand",
                              [k \in {"city_code"} |-> "MEX"]), 113)
      [] kind = "call_weather_extra" ->
             Rpc("tools/call", SomeId(n),
                 ParamsObject("get_weather_forecast",
                              [k \in {"city_code", "date", "units"} |-> "s"]),
                 151)
      [] kind = "call_unknown_tool" ->
             Rpc("tools/call", SomeId(n),
                 ParamsObject("get_tickets", EmptyDict), 93)
      [] kind = "call_null_params" ->
             Rpc("tools/call", SomeId(n), ParamsNull, 60)
      [] kind = "notify_initialized" ->
             Rpc("notifications/initialized", NoId, ParamsAbsent, 54)
      [] kind = "notify_cancelled" ->
             Rpc("notifications/cancelled", NoId,
                 ParamsObject(NoneVal, EmptyDict), 77)
      [] kind = "resources/list" ->
             Rpc("resources/list", SomeId(n), ParamsAbsent, 50)

\* What readline() and read() meet on standard input: a header line, the
\* empty line that ends the headers, and a body
HeaderLine(key, value) ==
    [kind |-> "header", key |-> key, value |-> value, body |-> NoRpc]
BlankLine == [kind |-> "blank", key |-> "", value |-> 0, body |-> NoRpc]
Body(b) == [kind |-> "body", key |-> "", value |-> b.chars, body |-> b]

\* readline() at end of file returns ''
EmptyLine == [kind |-> "eof", key |-> "", value |-> 0, body |-> NoRpc]

\* A message as the client frames it; kind "newline" is a stray empty line
Frame(kind, n) ==
    IF kind = "newline" THEN <<BlankLine>>
    ELSE <<HeaderLine("Content-Length", Message(kind, n).chars), BlankLine,
           Body(Message(kind, n))>>

RECURSIVE Stream(_, _)
Stream(kinds, n) ==
    IF n > Len(kinds) THEN <<>>
    ELSE Frame(kinds[n], n) \o Stream(kinds, n + 1)

\* Every input of at most MaxMessages messages
Inputs ==
    {Stream(kinds, 1) :
        kinds \in UNION {[1..n -> MessageKinds] : n \in 0..MaxMessages}}

\* TOOLS and the signatures of the tool functions
ToolSignature(tool_name) ==
    CASE tool_name = "get_host_cities" -> [required |-> {}, optional |-> {}]
      [] tool_name = "get_matches" ->
             [required |-> {"city_code"}, optional |-> {"date"}]
      [] tool_name = "predict_demand" ->
             [required |-> {"city_code", "business_category", "date"},
              optional |-> {"distance_to_stadium_km", "capacity"}]
      [] tool_name = "get_pricing_recommendation" ->
             [required |-> {"city_code", "business_category", "date"},
              optional |-> {"current_prices"}]
      [] tool_name = "get_staffing_recommendation" ->
             [required |-> {"city_code", "date", "normal_staff_count"},
              optional |-> {"business_hours"}]
      [] tool_name = "get_weather_forecast" ->
             [required |-> {"city_code", "date"}, optional |-> {}]

ToolNames ==
    {"get_host_cities", "get_matches", "predict_demand",
     "get_pricing_recommendation", "get_staffing_recommendation",
     "get_weather_forecast"}

\* tool(**arguments) raises TypeError when a required parameter is missing
\* or a keyword is not a parameter
BindRaises(sig, arguments) ==
    \/ sig.required \ DOMAIN arguments # {}
    \/ DOMAIN arguments \ (sig.required \cup sig.optional) # {}

\* The tool dispatch of tools/call: what the call returned or raised
CallTool(tool_name, arguments) ==
    IF tool_name \in ToolNames
    THEN IF BindRaises(ToolSignature(tool_name), arguments)
         THEN [raised |-> TRUE, text |-> <<"TypeError", tool_name>>]
         ELSE [raised |-> FALSE, text |-> <<"result", tool_name>>]
    ELSE [raised |-> FALSE, text |-> <<"Unknown tool", tool_name>>]

\* handle_request's outcome: a response, None, or an exception
NoneResponse == [id |-> NoId, kind |-> "none", code |-> 0, text |-> <<>>]
RpcResult(request_id, text) ==
    [id |-> request_id, kind |-> "result", code |-> 0, text |-> text]
RpcError(request_id, code, text) ==
    [id |-> request_id, kind |-> "error", code |-> code, text |-> text]
Returns(resp) == [raised |-> FALSE, exc |-> <<>>, response |-> resp]
Raises(e) == [raised |-> TRUE, exc |-> e, response |-> NoneResponse]

\* Variant: the exception of a tool leaves handle_request
ToolsCall_Uncaught(request_id, tool_name, arguments, called) ==
    IF called.raised THEN Raises(called.text)
    ELSE Returns(RpcResult(request_id, called.text))

\* handle_request, "tools/call": the try block around the tool dispatch
ToolsCall(request_id, tool_name, arguments, called) ==
    IF called.raised
    THEN Returns(RpcError(request_id, -32603, called.text))
    ELSE Returns(RpcResult(request_id, called.text))

handle_request(req) ==
    CASE req.method = "initialize" ->
             Returns(RpcResult(req.id, <<"serverInfo">>))
      [] req.method = "tools/list" ->
             Returns(RpcResult(req.id, <<"tools">>))
      [] req.method = "tools/call" ->
             IF req.params.kind = "null"
             THEN Raises(<<"AttributeError", "get">>)
             ELSE ToolsCall(req.id, req.params.name, req.params.arguments,
                            CallTool(req.params.name, req.params.arguments))
      [] req.method = "notifications/initialized" -> Returns(NoneResponse)
      [] OTHER ->
             Returns(RpcError(req.id, -32601,
                                   <<"Method not found", req.method>>))

\* The server has not been started
McpIdle ==
    /\ stdin = <<>>
    /\ stdout = <<>>
    /\ stderr = <<>>
    /\ mpc = "not_started"
    /\ line = EmptyLine
    /\ headers = EmptyDict
    /\ rpc = NoRpc
    /\ consumed = <<>>

\* ---------------------------------------------------- predict_demand
\* str.upper() on the codes and category names the calls use
Upper(s) ==
    CASE s = "mex" -> "MEX"
      [] s = "bar_pub" -> "BAR_PUB"
      [] OTHER -> s

\* The keys of HOST_CITIES
HostCityCodes ==
    {"MEX", "GDL", "MTY", "LAX", "NYC", "DFW", "MIA", "ATL", "SEA", "SFO",
     "HOU", "BOS", "PHL", "MCI", "YYZ", "VAN"}

\* TEAMS[code]["popularity"]
TeamPopularity ==
    [USA |-> 85, MEX |-> 90, CAN |-> 60, ARG |-> 98, BRA |-> 97, FRA |-> 92,
     ENG |-> 93, ESP |-> 91, GER |-> 88, POR |-> 89, NED |-> 82, ITA |-> 87,
     COL |-> 78, URU |-> 75]

\* A date string: one that strptime("%Y-%m-%d") parses is the number of
\* days from 2026-06-11 to it, any other is malformed
DateOn(offset) == [parses |-> TRUE, offset |-> offset]
MalformedDate == [parses |-> FALSE, offset |-> 0]

\* The last day of the tournament, 2026-07-19, counted from 2026-06-11
LastDay == 38

\* datetime.weekday(): 2026-06-11 is a Thursday
Weekday(offset) == (3 + offset) % 7

\* wc_start <= target_date <= wc_end
IsDuringWc(offset) == 0 <= offset /\ offset <= LastDay

\* get_matches: the stage of a match by its day of the tournament
StageOf(days_in) ==
    IF days_in <= 17 THEN "GROUP_STAGE"
    ELSE IF days_in <= 21 THEN "ROUND_OF_32"
    ELSE IF days_in <= 25 THEN "ROUND_OF_16"
    ELSE IF days_in <= 29 THEN "QUARTER_FINAL"
    ELSE IF days_in <= 33 THEN "SEMI_FINAL"
    ELSE "FINAL"

\* get_matches walks from day 0 in steps of 2 to 5 days, so it can put a
\* match on day 0 and on every day from 2 on, and at most one on a day
MatchDay(offset) == IsDuringWc(offset) /\ offset # 1

\* The teams the sampled matches are drawn from
SampledTeams == {"CAN", "URU", "BRA", "ARG"}

NoMatch == [played |-> FALSE, home |-> "CAN", away |-> "CAN"]

\* get_matches(city_code, date)["matches"]: no match, or the one match of
\* the day between two different teams
MatchesOn(offset) ==
    {NoMatch} \cup
    (IF MatchDay(offset)
     THEN {[played |-> TRUE, home |-> t[1], away |-> t[2]] :
              t \in {u \in SampledTeams \X SampledTeams : u[1] # u[2]}}
     ELSE {})

\* stage_multipliers.get(stage, 1.0)
StageMultiplier(stage) ==
    CASE stage = "GROUP_STAGE" -> PyFloat(12, 10)
      [] stage = "ROUND_OF_32" -> PyFloat(15, 10)
      [] stage = "ROUND_OF_16" -> PyFloat(18, 10)
      [] stage = "QUARTER_FINAL" -> PyFloat(22, 10)
      [] stage = "SEMI_FINAL" -> PyFloat(28, 10)
      [] stage = "FINAL" -> PyFloat(4, 1)
      [] OTHER -> FOne

\* category_multipliers.get(business_category.upper(), 1.0)
CategoryMultiplier(category) ==
    CASE category = "RESTAURANT" -> PyFloat(13, 10)
      [] category = "BAR_PUB" -> PyFloat(18, 10)
      [] category = "HOTEL" -> PyFloat(15, 10)
      [] category = "RETAIL" -> PyFloat(12, 10)
      [] category = "TRANSPORTATION" -> PyFloat(16, 10)
      [] category = "FOOD_TRUCK" -> PyFloat(14, 10)
      [] category = "PARKING" -> PyFloat(17, 10)
      [] OTHER -> FOne

\* max(0, 1 - (distance_to_stadium_km / 20))
DistanceFactor(distance) ==
    IF FLt(FZero, FSub(FOne, PyFloat(distance, 20)))
    THEN FSub(FOne, PyFloat(distance, 20))
    ELSE FZero

\* int(match_popularity * stage_mult * distance_factor * 0.5)
MatchBonus(match, offset, distance_factor) ==
    IF match.played
    THEN PyIntOfFloat(
             FMul(FMul(FMul(PyFloat(TeamPopularity[match.home]
                                      + TeamPopularity[match.away], 2),
                            StageMultiplier(StageOf(offset))),
                       distance_factor),
                  PyFloat(1, 2)))
    ELSE 0

\* +20 on Saturday and Sunday
WeekendBonus(offset) == IF Weekday(offset) >= 5 THEN 20 ELSE 0

\* int(base_demand * category multiplier)
ByCategory(base_demand, category) ==
    PyIntOfFloat(FMul(FOfInt(base_demand), CategoryMultiplier(Upper(category))))

\* predict_demand up to the variance: base_demand of a day of the tournament
DuringWcDemand(offset, distance_factor, match, category) ==
    ByCategory(100 + 30 + WeekendBonus(offset)
                   + PyIntOfFloat(FMul(FOfInt(30), distance_factor))
                   + MatchBonus(match, offset, distance_factor),
               category)

\* Variant: the index is not clamped
ClampDemand_None(base_demand) == base_demand

\* max(50, min(300, base_demand))
ClampDemand(base_demand) ==
    IF base_demand > 300 THEN 300
    ELSE IF base_demand < 50 THEN 50 ELSE base_demand

\* The impact level of a demand index
ImpactLevel(base_demand) ==
    IF base_demand >= 200 THEN "EXTREME"
    ELSE IF base_demand >= 170 THEN "VERY_HIGH"
    ELSE IF base_demand >= 140 THEN "HIGH"
    ELSE IF base_demand >= 115 THEN "MEDIUM"
    ELSE "LOW"

\* The arguments of the calls
DemandCities == {"MEX", "mex", "ACA"}
DemandCategories == {"RESTAURANT", "bar_pub", "FLORIST"}
DemandDates ==
    {MalformedDate} \cup {DateOn(d) : d \in {-1, 0, 1, 2, 3, 20, 37, 38, 39}}
DemandDistances == {-20, 0, 5, 14, 16, 20, 30}

DemandArgs ==
    [city_code : DemandCities, business_category : DemandCategories,
     date : DemandDates, distance_to_stadium_km : DemandDistances]

NoDemandArgs ==
    [city_code |-> "", business_category |-> "", date |-> MalformedDate,
     distance_to_stadium_km |-> 0]

\* predict_demand's locals and return value
PdState(at, base_demand, error, demand_index, demand_level, confidence) ==
    [at |-> at, base_demand |-> base_demand, error |-> error,
     demand_index |-> demand_index, demand_level |-> demand_level,
     confidence |-> confidence]

NoDemand == PdState("idle", 0, "", 0, "", "")

\* predict_demand has not been called
DemandIdle ==
    /\ dargs = NoDemandArgs
    /\ pd = NoDemand

\* The color operations have not been called
ColorIdle ==
    /\ seed = <<0, 0, 0>>
    /\ cur = <<0, 0, 0>>
    /\ prevc = <<0, 0, 0>>
    /\ hist = <<>>

Init ==
    /\ request \in Requests
    /\ pc = "received"
    /\ logo_path = NoneVal
    /\ files = {}
    /\ fetch = NoFetch
    /\ quote = NoQuote
    /\ tenant = EmptyDict
    /\ theme = ""
    /\ sections = <<>>
    /\ colors = NoPalette
    /\ elements = <<>>
    /\ sorted_sections = <<>>
    /\ idx = 0
    /\ calls = <<>>
    /\ pdf_bytes = NoBytes
    /\ exc = ""
    /\ response = NoResponse
    /\ run = 0
    /\ prev = NoBytes
    /\ hs = <<>>
    /\ disk = {}
    /\ ColorIdle
    /\ McpIdle
    /\ DemandIdle

\* ------------------------------------------------------------ actions
\* FastAPI parses the body into GeneratePDFRequest before the handler
\* runs: SectionConfig.type must be a member of SectionType, every color
\* field of ColorConfig is a plain str and theme is a plain str
BodyIsValid(req) ==
    \A i \in 1..Len(req.sections) : req.sections[i].type \in SectionType

ValidationError ==
    [status |-> 422, media |-> "application/json", content |-> NoContent,
     detail |-> <<"validation error">>]

ValidateRequest ==
    /\ pc = "received"
    /\ IF BodyIsValid(request)
       THEN /\ pc' = "handler"
            /\ UNCHANGED response
       ELSE /\ pc' = "done"
            /\ response' = ValidationError
    /\ UNCHANGED <<auxVars, pairVars, callVars, request, logo_path, files, fetch, genVars, loopVars,
                   pdf_bytes, exc>>

\* The handler goes on to build without waiting for any download
WantsLogo_NoAwait(req) == FALSE

\* `if request.tenant and request.tenant.logoUrl:` guards the awaited call
WantsLogo(req) == req.tenant.some /\ Truthy(req.tenant.val.logoUrl)

\* generate_quote_pdf / preview_quote_pdf up to the await
HandlerStart ==
    /\ pc = "handler"
    /\ logo_path' = NoneVal
    /\ pc' = IF WantsLogo(request) THEN "download" ELSE "construct"
    /\ UNCHANGED <<auxVars, pairVars, callVars, request, files, fetch, genVars, loopVars, pdf_bytes, exc,
                   response>>

\* download_logo(url): returns a path, or None after a non-200 status or
\* any exception (which it swallows)
DownloadResult(r) ==
    IF r.status # 200
    THEN [path |-> NoneVal, created |-> {}]
    ELSE LET ext == ExtFor(r.ctype)
             f == [path |-> TmpPath(ext), ext |-> ext,
                   valid |-> r.valid /\ r.write]
         IN [path |-> IF r.write THEN f.path ELSE NoneVal, created |-> {f}]

DownloadLogo ==
    /\ pc = "download"
    /\ \E r \in FetchResults :
          /\ fetch' = r
          /\ logo_path' = DownloadResult(r).path
          /\ files' = files \cup DownloadResult(r).created
    /\ pc' = "construct"
    /\ UNCHANGED <<auxVars, pairVars, callVars, request, genVars, loopVars, pdf_bytes, exc, response>>

\* QuotePDFGenerator.__init__ up to the palette
ConstructGenerator ==
    /\ pc = "construct"
    /\ quote' = request.quote
    /\ tenant' = IF request.tenant.some THEN request.tenant.val ELSE EmptyDict
    /\ theme' = IF request.styles.some THEN request.styles.val.theme
                ELSE request.theme
    /\ sections' = SectionsOrDefault(request.sections)
    /\ pc' = "palette"
    /\ UNCHANGED <<auxVars, pairVars, callVars, request, logo_path, files, fetch, colors, loopVars,
                   pdf_bytes, exc, response>>

\* A constructor that resolves the palette from the theme alone
PaletteFor_ThemeOnly(req, thm) == DynamicColorPalette(NoColors, thm)

\* QuotePDFGenerator.__init__: self.colors = DynamicColorPalette(...)
PaletteFor(req, thm) ==
    IF req.styles.some
    THEN DynamicColorPalette(req.styles.val.colors, req.styles.val.theme)
    ELSE DynamicColorPalette(NoColors, thm)

ResolvePalette ==
    /\ pc = "palette"
    /\ \E r \in {PaletteFor(request, theme)} :
          IF r.raised
          THEN /\ exc' = "ValueError: invalid literal for int()"
               /\ pc' = "except"
               /\ UNCHANGED <<colors, elements>>
          ELSE /\ colors' = r.palette
               /\ elements' = <<>>
               /\ pc' = "generate"
               /\ UNCHANGED exc
    /\ UNCHANGED <<auxVars, pairVars, callVars, request, logo_path, files, fetch, quote, tenant, theme,
                   sections, sorted_sections, idx, calls, pdf_bytes,
                   response>>

\* generate() going on from the stream the generator already holds
ResetElements_Keep(elems) == elems

\* generate(): `self.elements = []`
ResetElements(elems) == <<>>

\* generate(): reset the stream, filter and sort the sections
GenerateStart ==
    /\ pc = "generate"
    /\ elements' = ResetElements(elements)
    /\ sorted_sections' = SortedByOrder(EnabledOnly(sections))
    /\ idx' = 1
    /\ calls' = <<>>
    /\ run' = run + 1
    /\ pc' = "sections"
    /\ UNCHANGED <<auxVars, pairVars, prev, request, logo_path, files, fetch, genVars, pdf_bytes, exc,
                   response>>

Self ==
    [quote |-> quote, tenant |-> tenant, colors |-> colors, theme |-> theme,
     logo_path |-> logo_path, sections |-> sections, elements |-> elements]

\* The elements of a fragment, marked with the id of their descriptor
Tag(elems, id) ==
    [i \in 1..Len(elems) |->
        [kind |-> elems[i].kind, text |-> elems[i].text,
         rows |-> elems[i].rows, sec |-> id]]

\* generate(): one iteration of the section loop
GenSection ==
    /\ pc = "sections"
    /\ idx <= Len(sorted_sections)
    /\ LET section == sorted_sections[idx]
           builder == _get_section_builder(section.type)
       IN IF builder = NoneVal
          THEN /\ idx' = idx + 1
               /\ UNCHANGED <<elements, calls, exc, pc>>
          ELSE LET r == CallBuilder(builder, Self, files, section.config)
               IN /\ calls' = Append(calls, section.id)
                  /\ IF r.raised
                     THEN /\ exc' = "ValueError: invalid paragraph markup"
                          /\ pc' = "except"
                          /\ UNCHANGED <<elements, idx>>
                     ELSE /\ elements' = elements \o Tag(r.elements, section.id)
                          /\ idx' = idx + 1
                          /\ UNCHANGED <<exc, pc>>
    /\ UNCHANGED <<auxVars, pairVars, callVars, request, logo_path, files, fetch, genVars, sorted_sections,
                   pdf_bytes, response>>

\* generate(): doc.build(self.elements, ...) and the return.  The renderer
\* opens every Image here; layout is FALSE when layout itself fails.  It
\* calls the page decorator once for each page it lays out.
ImagesReadable(elems, fs) ==
    \A i \in 1..Len(elems) :
        elems[i].kind = "Image" => Readable(fs, elems[i].text)

DocBuild ==
    /\ pc = "sections"
    /\ idx > Len(sorted_sections)
    /\ \E layout \in BOOLEAN, n \in 1..MaxPages :
          IF layout /\ ImagesReadable(elements, files)
          THEN /\ pdf_bytes' =
                     [built |-> TRUE, stream |-> elements,
                      pages |-> [p \in 1..n |->
                                    _add_page_background(Self, p)]]
               /\ pc' = "cleanup"
               /\ UNCHANGED exc
          ELSE /\ exc' = IF layout THEN "OSError: cannot open resource"
                         ELSE "LayoutError"
               /\ pc' = "except"
               /\ UNCHANGED pdf_bytes
    /\ UNCHANGED <<auxVars, pairVars, callVars, request, logo_path, files, fetch, genVars, loopVars,
                   response>>

\* The handler's cleanup after generate() has returned: os.remove may
\* itself fail, which the bare except swallows
RemoveLogo ==
    /\ pc = "cleanup"
    /\ IF Truthy(logo_path) /\ Exists(files, logo_path)
       THEN \E removed \in BOOLEAN :
               files' = IF removed
                        THEN {f \in files : f.path # logo_path}
                        ELSE files
       ELSE UNCHANGED files
    /\ pc' = "respond"
    /\ UNCHANGED <<auxVars, pairVars, callVars, request, logo_path, fetch, genVars, loopVars, pdf_bytes,
                   exc, response>>

\* base64.b64encode(pdf_bytes)
Base64(bytes) == [encoding |-> "base64", data |-> bytes]
Binary(bytes) == [encoding |-> "binary", data |-> bytes]

SuccessResponse(req, bytes) ==
    IF req.endpoint = "/api/v1/quotes/pdf"
    THEN [status |-> 200, media |-> "application/pdf",
          content |-> Binary(bytes), detail |-> <<>>]
    ELSE [status |-> 200, media |-> "application/json",
          content |-> Base64(bytes), detail |-> <<>>]

Respond ==
    /\ pc = "respond"
    /\ response' = SuccessResponse(request, pdf_bytes)
    /\ pc' = "done"
    /\ UNCHANGED <<auxVars, pairVars, callVars, request, logo_path, files, fetch, genVars, loopVars,
                   pdf_bytes, exc>>

\* A handler that answers with what it has when the build failed
ErrorResponse_Partial(bytes, e) ==
    [status |-> 200, media |-> "application/pdf", content |-> Binary(bytes),
     detail |-> <<>>]

\* except Exception as e: raise HTTPException(500, f"Error generating
\* PDF: {str(e)}"); bytes is whatever generate() had returned
ErrorResponse(bytes, e) ==
    [status |-> 500, media |-> "application/json", content |-> NoContent,
     detail |-> <<"Error generating PDF: ", e>>]

RaiseHTTPException ==
    /\ pc = "except"
    /\ response' = ErrorResponse(pdf_bytes, exc)
    /\ pc' = "done"
    /\ UNCHANGED <<auxVars, pairVars, callVars, request, logo_path, files, fetch, genVars, loopVars,
                   pdf_bytes, exc>>

Next ==
    \/ ValidateRequest
    \/ HandlerStart
    \/ DownloadLogo
    \/ ConstructGenerator
    \/ ResolvePalette
    \/ GenerateStart
    \/ GenSection
    \/ DocBuild
    \/ RemoveLogo
    \/ Respond
    \/ RaiseHTTPException

Spec == Init /\ [][Next]_vars

\* ---- a caller that calls generate() again on the generator it has
MaxRuns == 2

\* generate() has returned and is called once more, before anything else
\* is done: the first result is kept for comparison
GenerateAgain ==
    /\ pc = "cleanup"
    /\ run < MaxRuns
    /\ prev' = pdf_bytes
    /\ pc' = "generate"
    /\ UNCHANGED <<auxVars, pairVars, run, request, logo_path, files, fetch, genVars,
                   loopVars, pdf_bytes, exc, response>>

TwiceRequests == LogoRequests \cup TotalsRequests

InitTwice == Init /\ request \in TwiceRequests

NextTwice == Next \/ GenerateAgain

SpecTwice == InitTwice /\ [][NextTwice]_vars

\* ---- two requests served by one event loop.  A handler runs without
\* interruption from one await to the next: up to `await client.get(...)`
\* in download_logo, from the response up to the `await` that closes the
\* client when `return path` leaves the `async with`, and from there to
\* its own end (the generator and generate() are synchronous).
Handlers == {1, 2}

\* The whole section loop of generate() as one computation.  The builder's
\* result r is computed once per section, as `section_elements` is in the
\* loop body.
RECURSIVE BuildAll(_, _, _, _)
BuildAll(self, fs, secs, acc) ==
    IF secs = <<>> THEN Built(acc)
    ELSE LET section == Head(secs)
             builder == _get_section_builder(section.type)
         IN IF builder = NoneVal
            THEN BuildAll(self, fs, Tail(secs), acc)
            ELSE CHOOSE out \in
                    {IF r.raised THEN Raised
                     ELSE BuildAll(self, fs, Tail(secs),
                                   acc \o Tag(r.elements, section.id)) :
                        r \in {CallBuilder(builder,
                                           [self EXCEPT !.elements = acc],
                                           fs, section.config)}} : TRUE

\* generate() on the generator whose palette is the value pal of
\* PaletteFor; a palette that raised ends the handler before generate()
BuildWith(req, thm, secs, lp, fs, layout, pal) ==
    CHOOSE out \in
        {[sections |-> secs, colors |-> pal.palette, stream |-> b.elements,
          status |-> IF ~b.raised /\ layout /\ ImagesReadable(b.elements, fs)
                     THEN 200 ELSE 500] :
            b \in {IF pal.raised THEN Raised
                   ELSE BuildAll([quote |-> req.quote,
                                  tenant |-> IF req.tenant.some
                                             THEN req.tenant.val
                                             ELSE EmptyDict,
                                  colors |-> pal.palette,
                                  theme |-> thm, logo_path |-> lp,
                                  sections |-> secs, elements |-> <<>>],
                                 fs, SortedByOrder(EnabledOnly(secs)),
                                 <<>>)}} : TRUE

\* The theme main.py passes to the generator
ThemeArg(req) == IF req.styles.some THEN req.styles.val.theme ELSE req.theme

\* The handler from the QuotePDFGenerator(...) call to the end of
\* generate(), given the logo path, the files that exist and whether
\* layout succeeds: the section list, the palette, the stream, the status.
\* The palette and the loop's result are each computed once.
HandlerBuild(req, lp, fs, layout) ==
    BuildWith(req, ThemeArg(req), SectionsOrDefault(req.sections), lp, fs,
              layout, PaletteFor(req, ThemeArg(req)))

\* A second temporary name
TmpPath2(ext) ==
    CASE ext = ".png" -> "/tmp/tmpb2.png"
      [] ext = ".jpg" -> "/tmp/tmpb2.jpg"
      [] ext = ".svg" -> "/tmp/tmpb2.svg"

\* A temporary file opened under a fixed name
Mkstemp_FixedName(fs, ext) == TmpPath(ext)

\* tempfile.mkstemp(suffix=ext): a path that no existing file has
Mkstemp(fs, ext) ==
    IF ~Exists(fs, TmpPath(ext)) THEN TmpPath(ext) ELSE TmpPath2(ext)

\* download_logo from the response on, with files already on the disk
DownloadTo(r, fs) ==
    IF r.status # 200
    THEN [path |-> NoneVal, created |-> {}]
    ELSE LET ext == ExtFor(r.ctype)
             f == [path |-> Mkstemp(fs, ext), ext |-> ext,
                   valid |-> r.valid /\ r.write]
         IN [path |-> IF r.write THEN f.path ELSE NoneVal, created |-> {f}]

\* Writing a file puts it in place of a file of the same path
WriteFiles(fs, created) ==
    {f \in fs : \A g \in created : g.path # f.path} \cup created

NoHandler(req) ==
    [req |-> req, pc |-> "received", fetch |-> NoFetch, logo_path |-> NoneVal,
     mine |-> {}, layout |-> TRUE, sections |-> <<>>, colors |-> NoPalette,
     stream |-> <<>>, status |-> 0]

PairSections ==
    <<Descriptor("s1", "summary", EmptyDict),
      Descriptor("s2", "cover", EmptyDict)>>

\* Requests with and without a logo and with a build that succeeds or
\* fails, one with no section list and colors of its own, and one that
\* validation rejects
PairRequests ==
    {MakeRequest("/api/v1/quotes/pdf", q, t, PairSections, NoStyles, "dark") :
        q \in {RichQuote, BadTitleQuote},
        t \in {NoTenant, TenantWith(LogoUrl, NoneVal)}}
    \cup
    {MakeRequest("/api/v1/quotes/pdf", RichQuote,
                 TenantWith(LogoUrl, NoneVal), <<>>,
                 SomeStyles("light",
                            SomeColors([DefaultColorConfig
                                           EXCEPT !.primary = Hex_ff0000])),
                 "dark"),
     MakeRequest("/api/v1/quotes/pdf", RichQuote, NoTenant,
                 <<Descriptor("s1", FutureType, EmptyDict)>>, NoStyles,
                 "dark")}

PairFetchResults ==
    {r \in FetchResults :
        \/ r.status = 0
        \/ r.status = 200 /\ r.ctype = "image/png"
        \/ r.status = 200 /\ r.ctype = "image/svg+xml" /\ r.valid /\ r.write}

InitPair ==
    /\ hs \in {<<NoHandler(a), NoHandler(b)>> : a, b \in PairRequests}
    /\ disk = {}
    /\ request = MakeRequest("/api/v1/quotes/pdf", SparseQuote, NoTenant, <<>>,
                             NoStyles, "dark")
    /\ pc = "elsewhere"
    /\ logo_path = NoneVal
    /\ files = {}
    /\ fetch = NoFetch
    /\ quote = NoQuote
    /\ tenant = EmptyDict
    /\ theme = ""
    /\ sections = <<>>
    /\ colors = NoPalette
    /\ elements = <<>>
    /\ sorted_sections = <<>>
    /\ idx = 0
    /\ calls = <<>>
    /\ pdf_bytes = NoBytes
    /\ exc = ""
    /\ response = NoResponse
    /\ run = 0
    /\ prev = NoBytes
    /\ ColorIdle
    /\ McpIdle
    /\ DemandIdle

oneVars ==
    <<request, pc, logo_path, files, fetch, genVars, loopVars, pdf_bytes, exc,
      response, callVars, auxVars>>

\* The handler from the generator's construction to its return or raise:
\* the temporary logo is removed only after generate() has returned, and
\* os.remove may fail
FinishHandler(h, lp) ==
    \E layout \in BOOLEAN :
        \E b \in {HandlerBuild(hs[h].req, lp, disk, layout)} :
            /\ hs' = [hs EXCEPT ![h].pc = "done", ![h].layout = layout,
                                ![h].logo_path = lp,
                                ![h].sections = b.sections,
                                ![h].colors = b.colors,
                                ![h].stream = b.stream,
                                ![h].status = b.status]
            /\ \E removed \in BOOLEAN :
                  disk' = IF b.status = 200 /\ Truthy(lp) /\ Exists(disk, lp)
                             /\ removed
                          THEN {f \in disk : f.path # lp}
                          ELSE disk

\* A request arrives: it is rejected by validation, or the handler runs to
\* its first await, or (with no logo to fetch) to its end
PairStart(h) ==
    /\ hs[h].pc = "received"
    /\ IF ~BodyIsValid(hs[h].req)
       THEN /\ hs' = [hs EXCEPT ![h].pc = "done", ![h].status = 422]
            /\ UNCHANGED disk
       ELSE IF WantsLogo(hs[h].req)
            THEN /\ hs' = [hs EXCEPT ![h].pc = "get"]
                 /\ UNCHANGED disk
            ELSE FinishHandler(h, NoneVal)
    /\ UNCHANGED oneVars

\* The response to client.get arrives (or the call fails): download_logo
\* writes the temporary file and waits for the client to close
PairGetReturns(h) ==
    /\ hs[h].pc = "get"
    /\ \E r \in PairFetchResults :
          LET d == DownloadTo(r, disk)
          IN /\ hs' = [hs EXCEPT ![h].pc = "closing", ![h].fetch = r,
                                 ![h].logo_path = d.path,
                                 ![h].mine = d.created]
             /\ disk' = WriteFiles(disk, d.created)
    /\ UNCHANGED oneVars

\* download_logo returns and the handler runs to its end
PairResume(h) ==
    /\ hs[h].pc = "closing"
    /\ FinishHandler(h, hs[h].logo_path)
    /\ UNCHANGED oneVars

NextPair == \E h \in Handlers : PairStart(h) \/ PairGetReturns(h) \/ PairResume(h)

SpecPair == InitPair /\ [][NextPair]_vars

\* ---- the color operations called on their own: a seed color, one
\* operation with one amount, and the same operation once more; or the
\* palette resolved from a ColorConfig made of the seed
MaxSeedIndex == 5

MaxOps == 2

\* Seed colors; their channels include bytes whose lightened or darkened
\* value sits next to a whole number, where float rounding decides the byte
SeedColor(k) == <<(10 * k) % 256, (43 + 30 * k) % 256, 255 - 7 * k>>

Seeds ==
    {SeedColor(k) : k \in 0..MaxSeedIndex}
        \cup {<<0, 0, 0>>, <<255, 255, 255>>, <<255, 0, 0>>}

\* Amounts and factors in hundredths: the literals of the palette (0.2,
\* 0.3, 0.4, 0.7, 0.85, 0.9, 1.1), the ends 0 and 1, 0.5, and one value
\* below 0 and one above 1
Hundredths == {-50, 0, 20, 30, 40, 50, 70, 85, 90, 100, 110, 150}

Amount(h) == PyFloat(h, 100)

\* A ColorConfig of the seed and its rotations with every optional field
\* absent, so that muted, border, tableHeader and tableRowAlt are derived
SeedConfig(c) ==
    [primary |-> _color_hex(c),
     secondary |-> _color_hex(c),
     accent |-> _color_hex(c),
     background |-> _color_hex(<<c[2], c[3], c[1]>>),
     text |-> _color_hex(<<c[3], c[1], c[2]>>),
     muted |-> NoneStr, border |-> NoneStr, tableHeader |-> NoneStr,
     tableRowAlt |-> NoneStr]

\* No request is being handled
HandlerIdle ==
    /\ request = MakeRequest("/api/v1/quotes/pdf", SparseQuote, NoTenant, <<>>,
                             NoStyles, "dark")
    /\ pc = "elsewhere"
    /\ logo_path = NoneVal
    /\ files = {}
    /\ fetch = NoFetch
    /\ quote = NoQuote
    /\ tenant = EmptyDict
    /\ theme = ""
    /\ sections = <<>>
    /\ colors = NoPalette
    /\ elements = <<>>
    /\ sorted_sections = <<>>
    /\ idx = 0
    /\ calls = <<>>
    /\ pdf_bytes = NoBytes
    /\ exc = ""
    /\ response = NoResponse
    /\ run = 0
    /\ prev = NoBytes
    /\ hs = <<>>
    /\ disk = {}

\* Every variable of the request handlers
handlerVars ==
    <<pairVars, callVars, request, pc, logo_path, files, fetch, genVars,
      loopVars, pdf_bytes, exc, response>>

InitColor ==
    /\ HandlerIdle
    /\ McpIdle
    /\ DemandIdle
    /\ seed \in Seeds
    /\ cur = seed
    /\ prevc = seed
    /\ hist = <<>>

\* The call `e` made on a DynamicColorPalette of theme e.theme
ApplyOp(e, color) ==
    CASE e.op = "lighten" -> _lighten_color(color, Amount(e.h))
      [] e.op = "darken" -> _darken_color(color, Amount(e.h))
      [] e.op = "adjust_color" -> _adjust_color(color, Amount(e.h))
      [] e.op = "adjust_opacity" -> _adjust_opacity(e.theme, color, Amount(e.h))

Call(e) ==
    /\ colors = NoPalette
    /\ hist' = Append(hist, e)
    /\ prevc' = cur
    /\ cur' = ApplyOp(e, cur)
    /\ UNCHANGED <<seed, handlerVars, mcpVars, demandVars>>

CallLighten ==
    /\ hist = <<>>
    /\ \E h \in Hundredths : Call([op |-> "lighten", h |-> h, theme |-> "dark"])

CallDarken ==
    /\ hist = <<>>
    /\ \E h \in Hundredths : Call([op |-> "darken", h |-> h, theme |-> "dark"])

CallAdjustColor ==
    /\ hist = <<>>
    /\ \E h \in Hundredths :
          Call([op |-> "adjust_color", h |-> h, theme |-> "dark"])

CallAdjustOpacity ==
    /\ hist = <<>>
    /\ \E h \in Hundredths, thm \in Themes :
          Call([op |-> "adjust_opacity", h |-> h, theme |-> thm])

\* The same call once more, on the color the call before returned
CallAgain ==
    /\ hist # <<>>
    /\ Len(hist) < MaxOps
    /\ Call(hist[Len(hist)])

\* DynamicColorPalette(config, theme) with the config of the seed
ResolveSeedConfig ==
    /\ hist = <<>>
    /\ colors = NoPalette
    /\ \E thm \in Themes :
          /\ theme' = thm
          /\ colors' = DynamicColorPalette(SomeColors(SeedConfig(seed)),
                                           thm).palette
    /\ UNCHANGED <<colorVars, mcpVars, demandVars, pairVars, callVars,
                   request, pc, logo_path, files, fetch, quote, tenant,
                   sections, loopVars, pdf_bytes, exc, response>>

NextColor ==
    \/ CallLighten
    \/ CallDarken
    \/ CallAdjustColor
    \/ CallAdjustOpacity
    \/ CallAgain
    \/ ResolveSeedConfig

SpecColor == InitColor /\ [][NextColor]_vars

\* ==================================================== MCP server: main()
InitMcp ==
    /\ HandlerIdle
    /\ ColorIdle
    /\ DemandIdle
    /\ stdin \in Inputs
    /\ stdout = <<>>
    /\ stderr = <<>>
    /\ mpc = "readline"
    /\ line = EmptyLine
    /\ headers = EmptyDict
    /\ rpc = NoRpc
    /\ consumed = <<>>

\* read_request(): `line = sys.stdin.readline()`; at end of file readline
\* returns '' and raises nothing
ReadLine ==
    /\ mpc = "readline"
    /\ line' = IF stdin = <<>> THEN EmptyLine ELSE Head(stdin)
    /\ stdin' = IF stdin = <<>> THEN stdin ELSE Tail(stdin)
    /\ mpc' = "check"
    /\ UNCHANGED <<stdout, stderr, headers, rpc, consumed, handlerVars,
                   colorVars, demandVars>>

\* read_request(): the empty line ends the header loop, a line with ':'
\* is stored as a header, any other line (also '') is passed over
CheckLine ==
    /\ mpc = "check"
    /\ IF line.kind = "blank"
       THEN /\ mpc' = "body"
            /\ UNCHANGED headers
       ELSE IF line.kind = "header"
       THEN /\ headers' = (line.key :> line.value) @@ headers
            /\ mpc' = "readline"
       ELSE /\ mpc' = "readline"
            /\ UNCHANGED headers
    /\ UNCHANGED <<stdin, stdout, stderr, line, rpc, consumed, handlerVars,
                   colorVars, demandVars>>

\* read_request(): with a Content-Length above 0 the body is read and
\* parsed, otherwise None is returned and main() goes round the loop
ReadBody ==
    /\ mpc = "body"
    /\ IF Get(headers, "Content-Length", 0) > 0
       THEN /\ stdin # <<>>
            /\ Head(stdin).kind = "body"
            /\ Head(stdin).value = Get(headers, "Content-Length", 0)
            /\ rpc' = Head(stdin).body
            /\ consumed' = Append(consumed, Head(stdin).body)
            /\ stdin' = Tail(stdin)
            /\ mpc' = "handle"
       ELSE /\ mpc' = "readline"
            /\ UNCHANGED <<stdin, rpc, consumed>>
    /\ headers' = EmptyDict
    /\ UNCHANGED <<stdout, stderr, line, handlerVars, colorVars, demandVars>>

\* main(): `except EOFError: break`, `except Exception as e:` reports e on
\* stderr and the loop goes on
MainExcept(e) ==
    IF e[1] = "EOFError"
    THEN /\ mpc' = "exited"
         /\ UNCHANGED stderr
    ELSE /\ stderr' = Append(stderr, e)
         /\ mpc' = "readline"

\* main(): response = handle_request(request); a response is sent
HandleRequest ==
    /\ mpc = "handle"
    /\ \E r \in {handle_request(rpc)} :
          IF r.raised
          THEN /\ MainExcept(r.exc)
               /\ UNCHANGED stdout
          ELSE /\ stdout' = IF r.response # NoneResponse
                            THEN Append(stdout, r.response) ELSE stdout
               /\ mpc' = "readline"
               /\ UNCHANGED stderr
    /\ UNCHANGED <<stdin, line, headers, rpc, consumed, handlerVars,
                   colorVars, demandVars>>

NextMcp ==
    \/ ReadLine
    \/ CheckLine
    \/ ReadBody
    \/ HandleRequest

\* The server is one thread that is never suspended for good: whenever it
\* can take a step it takes one
SpecMcp == InitMcp /\ [][NextMcp]_vars /\ WF_vars(NextMcp)

\* ================================================ predict_demand calls
InitDemand ==
    /\ HandlerIdle
    /\ ColorIdle
    /\ McpIdle
    /\ dargs \in DemandArgs
    /\ pd = PdState("called", 0, "", 0, "", "")

\* predict_demand down to the category adjustment; the match of the day
\* is what get_matches happened to draw
PredictDemandBase ==
    /\ pd.at = "called"
    /\ IF Upper(dargs.city_code) \notin HostCityCodes
       THEN pd' = PdState("returned", 0, "Invalid city code", 0, "", "")
       ELSE IF ~dargs.date.parses
       THEN pd' = PdState("returned", 0,
                          "Invalid date format. Use YYYY-MM-DD", 0, "", "")
       ELSE IF IsDuringWc(dargs.date.offset)
       THEN \E match \in MatchesOn(dargs.date.offset) :
               pd' = PdState("variance",
                             DuringWcDemand(
                                 dargs.date.offset,
                                 DistanceFactor(dargs.distance_to_stadium_km),
                                 match, dargs.business_category),
                             "", 0, "", "")
       ELSE pd' = PdState("variance", 100, "", 0, "", "")
    /\ UNCHANGED <<dargs, handlerVars, colorVars, mcpVars>>

\* predict_demand from the variance to the return value
Returned(base_demand, during) ==
    PdState("returned", base_demand, "", ClampDemand(base_demand),
            ImpactLevel(ClampDemand(base_demand)),
            IF during THEN "HIGH" ELSE "MEDIUM")

PredictDemandVariance ==
    /\ pd.at = "variance"
    /\ \E variance \in -10..10 :
          pd' = Returned(pd.base_demand + variance,
                         IsDuringWc(dargs.date.offset))
    /\ UNCHANGED <<dargs, handlerVars, colorVars, mcpVars>>

NextDemand ==
    \/ PredictDemandBase
    \/ PredictDemandVariance

SpecDemand == InitDemand /\ [][NextDemand]_vars

\* ============================================================ properties
EnabledIds == {sections[i].id : i \in {j \in 1..Len(sections) : sections[j].enabled}}

OrderOfId(id) ==
    sections[CHOOSE i \in 1..Len(sections) : sections[i].id = id].order

\* ElementsOf(id): the part of the content stream that came from one descriptor
ElementsOf(id) == SelectSeq(elements, LAMBDA e : e.sec = id)

\* The section loop of generate() has run over every sorted section
LoopFinished == idx = Len(sorted_sections) + 1

\* C1: a temporary logo file created by download_logo is gone when the
\* handler has returned or raised, on the success path and on every
\* failure path.  (No temporary file exists before the request, so every
\* file present was created for it.)
C1_TempLogoRemoved == pc = "done" => files = {}

\* C2: a builder is called for exactly the enabled descriptors, a disabled
\* descriptor contributes no element, and the fragments appear in the
\* stream in non-decreasing order of `order`
C2_EnabledInOrder ==
    /\ \A k \in 1..Len(calls) : calls[k] \in EnabledIds
    /\ \A k \in 1..Len(elements) : elements[k].sec \in EnabledIds
    /\ LoopFinished =>
          /\ Range(calls) = EnabledIds
          /\ Len(calls) = Cardinality(EnabledIds)
    /\ \A a \in 1..(Len(elements) - 1) :
          OrderOfId(elements[a].sec) <= OrderOfId(elements[a + 1].sec)

\* C2 witness: a finished loop over a list that holds a disabled descriptor
\* and two enabled ones given in descending order, both with elements
C2_Witness ==
    /\ LoopFinished
    /\ \E i \in 1..Len(sections) : ~sections[i].enabled
    /\ \E i, j \in 1..Len(sections) :
          /\ i < j
          /\ sections[i].enabled /\ sections[j].enabled
          /\ sections[i].order > sections[j].order
          /\ ElementsOf(sections[i].id) # <<>>
          /\ ElementsOf(sections[j].id) # <<>>

\* C3: of two enabled descriptors with equal `order`, the one that comes
\* first in the input list has its builder called first and its fragment
\* first in the stream
C3_StableOrder ==
    \A i, j \in 1..Len(sections) :
        (/\ i < j
         /\ sections[i].enabled /\ sections[j].enabled
         /\ sections[i].order = sections[j].order)
        => /\ \A a, b \in 1..Len(elements) :
                 (elements[a].sec = sections[i].id
                    /\ elements[b].sec = sections[j].id) => a < b
           /\ \A a, b \in 1..Len(calls) :
                 (calls[a] = sections[i].id /\ calls[b] = sections[j].id)
                    => a < b
           /\ sections[j].id \in Range(calls)
                 => sections[i].id \in Range(calls)

\* C3 witness: a finished loop with two enabled descriptors of different
\* types and equal order, both with elements in the stream
C3_Witness ==
    /\ LoopFinished
    /\ \E i, j \in 1..Len(sections) :
          /\ i < j
          /\ sections[i].enabled /\ sections[j].enabled
          /\ sections[i].order = sections[j].order
          /\ sections[i].type # sections[j].type
          /\ ElementsOf(sections[i].id) # <<>>
          /\ ElementsOf(sections[j].id) # <<>>

\* C4: a response carries PDF content only when generate() ran to
\* completion, and then it carries all of it; after any exception the
\* response is HTTP 500 'Error generating PDF: ...' with no content
C4_AllOrNothing ==
    /\ response.content.encoding # "none" =>
          /\ response.status = 200
          /\ exc = ""
          /\ LoopFinished
          /\ pdf_bytes.built
          /\ pdf_bytes.stream = elements
          /\ response.content.data = pdf_bytes
    /\ (pc = "done" /\ exc # "") =>
          /\ response.status = 500
          /\ response.content = NoContent
          /\ response.detail = <<"Error generating PDF: ", exc>>
    /\ exc # "" => ~pdf_bytes.built

\* C4 witness: the build failed after part of the stream had been produced,
\* and the handler has answered
C4_Witness == pc = "done" /\ exc # "" /\ elements # <<>>

\* The request carries a ColorConfig with a color that is not '#rrggbb'
MalformedColorRequest ==
    /\ request.styles.some
    /\ request.styles.val.colors.some
    /\ HasMalformedColor(request.styles.val.colors.val)

\* C5: a malformed hex string in a color field of the request is reported
\* as a validation error before palette construction begins: the palette
\* constructor neither fails on it nor resolves a palette from it, and no
\* rendering work is done
C5_MalformedColorRejected ==
    MalformedColorRequest =>
        /\ colors.source = "none"
        /\ exc = ""
        /\ pc \notin {"generate", "sections", "cleanup", "respond"}
        /\ pc = "done" => response = ValidationError

\* The logo download did not deliver a file the renderer can read
LogoFetchFailed == fetch.status \in {0, 404}

LogoParseFails ==
    /\ fetch.status = 200
    /\ ~fetch.valid \/ ~fetch.write \/ ExtFor(fetch.ctype) = ".svg"

\* The cover section is built and asks for the logo
CoverShowsLogo ==
    \E i \in 1..Len(sections) :
        /\ sections[i].type = "cover"
        /\ sections[i].enabled
        /\ Get(sections[i].config, "showLogo", TRUE)

\* C6: after a logo fetch failure or a logo parsing failure the document is
\* still generated and returned, with a placeholder box in place of the
\* logo (failures that have nothing to do with the logo are set aside)
C6_LogoFailureDegrades ==
    (/\ pc = "done"
     /\ LogoFetchFailed \/ LogoParseFails
     /\ CoverShowsLogo
     /\ request.quote.title # BadMarkup
     /\ exc # "LayoutError")
    => /\ response.status = 200
       /\ \E k \in 1..Len(response.content.data.stream) :
             response.content.data.stream[k].kind = "CompanyLogo"

\* QuotePDFGenerator.__init__ has set the generator's fields
Constructed ==
    \/ pc \in {"palette", "generate", "sections", "cleanup", "respond",
               "except"}
    \/ pc = "done" /\ response.status # 422

\* C7: the build uses the caller's section list when it is non-empty and
\* otherwise the default list cover=0, summary=1, details=2, totals=3,
\* terms=4, signature=5, all enabled; with sections = [] the builders run in
\* exactly that order
C7_SectionsOrDefault ==
    LET DefaultTypes ==
            <<"cover", "summary", "details", "totals", "terms", "signature">>
    IN Constructed =>
        /\ request.sections # <<>> => sections = request.sections
        /\ request.sections = <<>> =>
              /\ Len(sections) = 6
              /\ \A i \in 1..6 :
                    /\ sections[i].type = DefaultTypes[i]
                    /\ sections[i].order = i - 1
                    /\ sections[i].enabled
        /\ (request.sections = <<>> /\ LoopFinished) =>
              [k \in 1..Len(calls) |->
                  sections[CHOOSE i \in 1..Len(sections) :
                               sections[i].id = calls[k]].type] = DefaultTypes

\* C7 witness: a request with sections = [] and the light theme has been
\* answered with a document
C7_Witness ==
    /\ request.sections = <<>>
    /\ theme = "light"
    /\ pc = "done"
    /\ response.status = 200

\* C8: a descriptor whose type has no registered builder is skipped
\* without an error, and the fragments of the other enabled sections are
\* still produced
C8_UnknownTypeSkipped ==
    (/\ pc = "done"
     /\ \E i \in 1..Len(request.sections) :
           _get_section_builder(request.sections[i].type) = NoneVal
     /\ exc = "")
    => /\ response.status = 200
       /\ \A i \in 1..Len(request.sections) :
             (/\ request.sections[i].enabled
              /\ _get_section_builder(request.sections[i].type) # NoneVal)
             => request.sections[i].id \in Range(calls)

\* A palette has been resolved
PaletteResolved == colors.source # "none"

SuppliedColors == request.styles.some /\ request.styles.val.colors.some

\* C9: when a style config with colors is supplied, the seed colors of the
\* palette are the supplied ones for any theme (a well-formed supplied
\* string reads back unchanged from the palette); the built-in palette is
\* used only when no colors are supplied
C9_ConfigColorsFirst ==
    PaletteResolved =>
        /\ SuppliedColors =>
              LET cfg == request.styles.val.colors.val
              IN /\ colors.source = "config"
                 /\ colors.EMERALD_PRIMARY = HexColor(cfg.primary).rgb
                 /\ colors.BG_PRIMARY = HexColor(cfg.background).rgb
                 /\ colors.TEXT_WHITE = HexColor(cfg.text).rgb
                 /\ cfg.secondary # <<>> =>
                       colors.SECONDARY = HexColor(cfg.secondary).rgb
                 /\ cfg.accent # <<>> =>
                       colors.ACCENT = HexColor(cfg.accent).rgb
                 /\ WellFormed(cfg.primary) =>
                       _color_hex(colors.EMERALD_PRIMARY) = cfg.primary
                 /\ WellFormed(cfg.background) =>
                       _color_hex(colors.BG_PRIMARY) = cfg.background
                 /\ WellFormed(cfg.text) =>
                       _color_hex(colors.TEXT_WHITE) = cfg.text
                 /\ WellFormed(cfg.secondary) =>
                       _color_hex(colors.SECONDARY) = cfg.secondary
                 /\ WellFormed(cfg.accent) =>
                       _color_hex(colors.ACCENT) = cfg.accent
        /\ colors.source = "static" => ~SuppliedColors
        /\ ~SuppliedColors => colors.source = "static"

\* C9 witness: a light-theme request that supplies primary = #ff0000 has
\* its palette resolved
C9_Witness ==
    /\ SuppliedColors
    /\ request.styles.val.theme = "light"
    /\ request.styles.val.colors.val.primary = Hex_ff0000
    /\ PaletteResolved
    /\ pc = "done"

\* The generator as it would be with this descriptor alone and nothing in
\* the stream yet
Alone(s) == [Self EXCEPT !.sections = <<s>>, !.elements = <<>>]

\* C10: the fragment of every descriptor whose builder was called is what
\* its builder yields from its own config, the quote, the tenant and the
\* palette (and the logo file) with no other section present, and the
\* builders leave the section list, the quote and the tenant as
\* the constructor set them
C10_BuildersIndependent ==
    /\ Constructed =>
          /\ quote = request.quote
          /\ tenant = (IF request.tenant.some THEN request.tenant.val
                       ELSE EmptyDict)
          /\ sections = SectionsOrDefault(request.sections)
    /\ (pc \in {"sections", "cleanup", "except"} \/ (pc = "done" /\ exc # ""))
          => \A i \in 1..Len(sections) :
                sections[i].id \in Range(calls) =>
                    ElementsOf(sections[i].id) =
                        Tag(CallBuilder(sections[i].type, Alone(sections[i]),
                                        files, sections[i].config).elements,
                            sections[i].id)

\* C10 witness: the loop has finished over a list in which the summary
\* builder ran after another section had put elements in the stream and a
\* descriptor carried a config of its own
C10_Witness ==
    /\ LoopFinished
    /\ pc = "cleanup"
    /\ \E a, b \in 1..Len(elements) :
          /\ a < b
          /\ elements[a].sec # elements[b].sec
          /\ \E i \in 1..Len(sections) :
                sections[i].id = elements[b].sec /\ sections[i].type = "summary"
    /\ \E i \in 1..Len(sections) :
          sections[i].id \in Range(calls) /\ sections[i].config # EmptyDict

\* The tenant of the request names a logo to fetch
LogoRequested == request.tenant.some /\ Truthy(request.tenant.val.logoUrl)

\* The build has begun: the generator is being constructed or later
BuildBegun ==
    \/ pc \in {"construct", "palette", "generate", "sections", "cleanup",
               "respond", "except"}
    \/ pc = "done" /\ response.status # 422

\* C13: when the build begins, the logo fetch of the request has completed
\* (logo_path is the path it returned) or has been abandoned (logo_path is
\* None); while the fetch is pending no section list, palette or element
\* has been resolved
C13_FetchBeforeBuild ==
    /\ (BuildBegun /\ LogoRequested) =>
          /\ fetch # NoFetch
          /\ logo_path = DownloadResult(fetch).path
          /\ fetch.status # 200 => logo_path = NoneVal
    /\ (BuildBegun /\ ~LogoRequested) => logo_path = NoneVal
    /\ pc = "download" =>
          /\ fetch = NoFetch
          /\ sections = <<>>
          /\ colors = NoPalette
          /\ elements = <<>>
          /\ calls = <<>>

\* C13 witness: one build begun after an abandoned fetch (a timeout), whose
\* palette is resolved with no logo path
C13_Witness ==
    /\ LogoRequested
    /\ fetch.status = 0
    /\ logo_path = NoneVal
    /\ pc = "generate"
    /\ PaletteResolved

\* The config of the descriptor an element came from
ConfigOfId(id) ==
    sections[CHOOSE i \in 1..Len(sections) : sections[i].id = id].config

TypeOfId(id) ==
    sections[CHOOSE i \in 1..Len(sections) : sections[i].id = id].type

\* The tables in the stream that a builder of the given type produced
TablesOf(type) ==
    {k \in 1..Len(elements) :
        elements[k].kind = "Table" /\ TypeOfId(elements[k].sec) = type
            /\ elements[k].rows # <<>>}

RowsLabelled(rows, label) == {r \in 1..Len(rows) : rows[r][1].s = label}

\* C14: the TOTALS table has a discount line only if discountAmount > 0 and
\* a tax line only if taxAmount > 0 (and has them then, unless the config
\* switches them off); for every quote and config its last row is the total
\* line labelled with the currency code, and it is the only such row; a
\* discount line precedes it, and for discountAmount = 50 reads -$50.00
C14_TotalsLines ==
    \A k \in TablesOf("totals") :
        LET rows == elements[k].rows
            config == ConfigOfId(elements[k].sec)
            disc == RowsLabelled(rows, "Descuento")
            tax == RowsLabelled(rows, "IVA")
        IN /\ disc # {} => quote.discountAmount > 0
           /\ tax # {} => quote.taxAmount > 0
           /\ (quote.discountAmount > 0 /\ Get(config, "showDiscount", TRUE))
                 => Cardinality(disc) = 1
           /\ (quote.taxAmount > 0 /\ Get(config, "showTax", TRUE))
                 => Cardinality(tax) = 1
           /\ Len(rows) >= 1
           /\ RowsLabelled(rows, "TOTAL") = {Len(rows)}
           /\ rows[Len(rows)][1].v = <<quote.currency>>
           /\ \A r \in disc \cup tax : r < Len(rows)
           /\ \A r \in disc :
                 quote.discountAmount = 5000 =>
                     rows[r][2].v = <<"-", "$", "5", "0", ".", "0", "0">>

\* C14 witness: a TOTALS table in USD with the line -$50.00 and no tax
\* line, of a document that has been delivered
C14_Witness ==
    /\ pc = "done"
    /\ response.status = 200
    /\ quote.currency = "USD"
    /\ quote.taxAmount = 0
    /\ \E k \in TablesOf("totals") :
          /\ \E r \in RowsLabelled(elements[k].rows, "Descuento") :
                elements[k].rows[r][2].v = <<"-", "$", "5", "0", ".", "0", "0">>
          /\ RowsLabelled(elements[k].rows, "IVA") = {}
          /\ Len(elements[k].rows) = 3

\* C15: in the DETAILS table a description that is shown appears as its
\* first 80 characters followed by an ellipsis when it is longer than 80
\* characters, and unchanged when it has 80 characters or fewer; the
\* description stored in the quote stays what the request carried
C15_DescriptionTruncated ==
    /\ Constructed => quote.items = request.quote.items
    /\ \A k \in TablesOf("details") :
          LET rows == elements[k].rows
              config == ConfigOfId(elements[k].sec)
          IN /\ Len(rows) = Len(quote.items) + 1
             /\ \A i \in 1..Len(quote.items) :
                   LET d == quote.items[i].description
                       shown == rows[i + 1][1].v
                   IN (Get(config, "showDescription", TRUE) /\ d # <<>>) =>
                         /\ Len(d) <= 80 => shown = d
                         /\ Len(d) > 80 =>
                               /\ Len(shown) = 81
                               /\ \A c \in 1..80 : shown[c] = d[c]
                               /\ shown[81] = "..."

\* C15 witness: a delivered document whose DETAILS table shows one
\* description of 80 characters whole and one of 81 characters cut
C15_Witness ==
    /\ pc = "done"
    /\ response.status = 200
    /\ \E k \in TablesOf("details") :
          \E i, j \in 1..Len(quote.items) :
              /\ Len(quote.items[i].description) = 80
              /\ elements[k].rows[i + 1][1].v = quote.items[i].description
              /\ Len(quote.items[j].description) = 81
              /\ Len(elements[k].rows[j + 1][1].v) = 81
              /\ elements[k].rows[j + 1][1].v[81] = "..."

\* C16: the DETAILS table has the description column for every combination
\* of the four flags; it has the quantity, unit-price and total columns
\* exactly when their own flags are true; every item row has as many cells
\* as the header
C16_ColumnsFollowFlags ==
    \A k \in TablesOf("details") :
        LET rows == elements[k].rows
            config == ConfigOfId(elements[k].sec)
            header == rows[1]
            labels == {header[c].s : c \in 1..Len(header)}
            Flag(f) == Get(config, f, TRUE)
            Count(f) == IF Flag(f) THEN 1 ELSE 0
        IN /\ header[1].s = "DESCRIPCION"
           /\ ("CANT." \in labels) <=> Flag("showQuantity")
           /\ ("PRECIO UNIT." \in labels) <=> Flag("showUnitPrice")
           /\ ("SUBTOTAL" \in labels) <=> Flag("showTotal")
           /\ Len(header) = 1 + Count("showQuantity") + Count("showUnitPrice")
                               + Count("showTotal")
           /\ \A r \in 1..Len(rows) : Len(rows[r]) = Len(header)
           /\ \A r \in 2..Len(rows) : rows[r][1].s = quote.items[r - 1].name

\* C16 witness: a delivered DETAILS table built with showDescription and
\* showUnitPrice off and showQuantity and showTotal on
C16_Witness ==
    /\ pc = "done"
    /\ response.status = 200
    /\ \E k \in TablesOf("details") :
          LET config == ConfigOfId(elements[k].sec)
          IN /\ config # EmptyDict
             /\ ~config.showDescription /\ config.showQuantity
             /\ ~config.showUnitPrice /\ config.showTotal
             /\ Len(elements[k].rows[1]) = 3
             /\ Len(elements[k].rows) = 2

\* The lines of a content, read off the positions of its newlines: a line
\* starts at 1 and after every newline and runs up to the next newline
LineStarts(c) == {1} \cup {i + 1 : i \in {j \in 1..Len(c) : c[j] = NL}}

LineFrom(c, p) ==
    LET stop == CHOOSE q \in p..(Len(c) + 1) :
                    /\ q = Len(c) + 1 \/ c[q] = NL
                    /\ \A r \in p..(q - 1) : c[r] # NL
    IN SubSeq(c, p, stop - 1)

LinesOf(c) ==
    [k \in 1..Cardinality(LineStarts(c)) |->
        LineFrom(c, CHOOSE p \in LineStarts(c) :
                        Cardinality({q \in LineStarts(c) : q < p}) = k - 1)]

\* The texts of the paragraphs a CUSTOM_TEXT descriptor put in the stream
LineParagraphsOf(id) ==
    LET ps == SelectSeq(ElementsOf(id), LAMBDA e : e.text = "line")
    IN [k \in 1..Len(ps) |-> ps[k].rows[1][1].v]

CustomTextCalled ==
    {i \in 1..Len(sections) :
        /\ sections[i].type = "custom_text"
        /\ sections[i].id \in Range(calls)
        /\ pc \in {"sections", "cleanup", "respond", "done"}}

OpsOn(page) == {page[k].op : k \in 1..Len(page)}

\* The theme the request asks for
RequestTheme ==
    IF request.styles.some THEN request.styles.val.theme ELSE request.theme

\* C18: on every page of a built document the decorator draws the
\* background fill, the accent line and the footer; it draws the page
\* number and the quote number on every page after the first and never on
\* page 1; it draws the top gradient band only when the theme is dark
C18_PageDecoration ==
    pdf_bytes.built =>
        /\ Len(pdf_bytes.pages) >= 1
        /\ \A p \in 1..Len(pdf_bytes.pages) :
              LET page == pdf_bytes.pages[p]
              IN /\ {"background", "accent_line", "footer_rule", "footer"}
                        \subseteq OpsOn(page)
                 /\ ("page_number" \in OpsOn(page)) <=> p > 1
                 /\ ("quote_number" \in OpsOn(page)) <=> p > 1
                 /\ ("header_rule" \in OpsOn(page)) <=> p > 1
                 /\ ("gradient" \in OpsOn(page)) <=> RequestTheme = "dark"
                 /\ \A k \in 1..Len(page) :
                       /\ page[k].op = "quote_number" =>
                             page[k].text = <<request.quote.quoteNumber>>
                       /\ page[k].op = "page_number" =>
                             page[k].text = <<"Pagina ">> \o DecimalOf(p)

\* C18 witness: a delivered dark-theme document of two pages
C18_Witness ==
    /\ pc = "done"
    /\ response.status = 200
    /\ RequestTheme = "dark"
    /\ Len(pdf_bytes.pages) >= 2
    /\ "gradient" \in OpsOn(pdf_bytes.pages[1])
    /\ "page_number" \in OpsOn(pdf_bytes.pages[2])

\* The contact fields of the request's tenant that hold a value
ContactFields == {"phone", "email", "website"}

ContactPresent ==
    IF request.tenant.some
    THEN {f \in ContactFields : request.tenant.val[f] \notin {NoneVal, ""}}
    ELSE {}

FooterOf(page) == page[CHOOSE k \in 1..Len(page) : page[k].op = "footer"].text

PaletteNames ==
    {"BG_PRIMARY", "BG_SECONDARY", "BG_CARD", "BG_ELEVATED", "EMERALD_PRIMARY",
     "EMERALD_LIGHT", "EMERALD_DARK", "EMERALD_GLOW", "SECONDARY", "ACCENT",
     "TEXT_WHITE", "TEXT_GRAY_100", "TEXT_GRAY_300", "TEXT_GRAY_400",
     "TEXT_GRAY_500", "TEXT_GRAY_600", "BORDER_DARK", "BORDER_LIGHT",
     "BORDER_SUBTLE"}

\* The attribute of the built-in that a palette name is copied from
BuiltinName(name) ==
    CASE name = "SECONDARY" -> "PURPLE_PRIMARY"
      [] name = "ACCENT" -> "TEAL_PRIMARY"
      [] OTHER -> name

\* The attribute of the light built-in that five of the names are taken from
LightName(name) ==
    CASE name = "TEXT_WHITE" -> "TEXT_PRIMARY"
      [] name = "TEXT_GRAY_300" -> "TEXT_SECONDARY"
      [] name \in {"TEXT_GRAY_400", "TEXT_GRAY_500"} -> "TEXT_MUTED"
      [] name = "BORDER_DARK" -> "BORDER_DEFAULT"
      [] OTHER -> BuiltinName(name)

\* The fallback of a name, as red, green and blue bytes; the three
\* background tones fall back to the built-in's BG_PRIMARY
FallbackOf(name, builtin) ==
    CASE name \in {"BG_SECONDARY", "BG_CARD", "BG_ELEVATED"} ->
             builtin.BG_PRIMARY
      [] name = "EMERALD_PRIMARY" -> <<16, 185, 129>>
      [] name = "EMERALD_LIGHT" -> <<52, 211, 153>>
      [] name = "EMERALD_DARK" -> <<4, 120, 87>>
      [] name = "EMERALD_GLOW" -> <<110, 231, 183>>
      [] name = "SECONDARY" -> <<124, 58, 237>>
      [] name = "ACCENT" -> <<20, 184, 166>>
      [] name = "TEXT_WHITE" -> <<255, 255, 255>>
      [] name = "TEXT_GRAY_100" -> <<241, 245, 249>>
      [] name = "TEXT_GRAY_300" -> <<203, 213, 225>>
      [] name = "TEXT_GRAY_400" -> <<148, 163, 184>>
      [] name = "TEXT_GRAY_500" -> <<100, 116, 139>>
      [] name = "TEXT_GRAY_600" -> <<71, 85, 105>>
      [] name = "BORDER_DARK" -> <<51, 65, 85>>
      [] name = "BORDER_LIGHT" -> <<71, 85, 105>>
      [] name = "BORDER_SUBTLE" -> <<30, 41, 59>>

\* The built-in palette the theme of the request selects
SelectedBuiltin ==
    IF RequestTheme = "light" THEN VentazoColorsLight ELSE VentazoColors

\* Palette resolution is over
PaletteTried ==
    \/ pc \in {"generate", "sections", "cleanup", "respond", "except"}
    \/ pc = "done" /\ response.status # 422

\* Without supplied colors palette resolution did not fail and every name
\* has a color
StaticNeverFails ==
    (PaletteTried /\ ~SuppliedColors) =>
        /\ PaletteResolved
        /\ colors.source = "static"
        /\ exc # "ValueError: invalid literal for int()"
        /\ PaletteNames \subseteq DOMAIN colors

\* C20 as stated: without supplied colors, palette resolution never fails
\* and every named color is the built-in's attribute of that name, or the
\* hardcoded fallback when the built-in selected by the theme lacks it
C20_CopiedOrFallback ==
    /\ StaticNeverFails
    /\ (PaletteResolved /\ ~SuppliedColors) =>
          \A name \in PaletteNames :
              colors[name] =
                  IF BuiltinName(name) \in DOMAIN SelectedBuiltin
                  THEN SelectedBuiltin[BuiltinName(name)]
                  ELSE FallbackOf(name, SelectedBuiltin)

\* C20 amended: as stated, except that with the light built-in TEXT_WHITE,
\* TEXT_GRAY_300, TEXT_GRAY_400, TEXT_GRAY_500 and BORDER_DARK are the
\* light built-in's TEXT_PRIMARY, TEXT_SECONDARY, TEXT_MUTED, TEXT_MUTED
\* and BORDER_DEFAULT
C20_CopiedAliasedOrFallback ==
    /\ StaticNeverFails
    /\ (PaletteResolved /\ ~SuppliedColors) =>
          \A name \in PaletteNames :
              LET attr == IF RequestTheme = "light" THEN LightName(name)
                          ELSE BuiltinName(name)
              IN colors[name] =
                    IF attr \in DOMAIN SelectedBuiltin
                    THEN SelectedBuiltin[attr]
                    ELSE FallbackOf(name, SelectedBuiltin)

\* C20 witness: a light-theme request without colors whose palette has
\* the light built-in's background, a fallback for EMERALD_LIGHT and the
\* light built-in's TEXT_PRIMARY as TEXT_WHITE
C20_Witness ==
    /\ ~SuppliedColors
    /\ RequestTheme = "light"
    /\ pc = "done"
    /\ response.status = 200
    /\ colors.BG_PRIMARY = <<255, 255, 255>>
    /\ colors.EMERALD_LIGHT = <<52, 211, 153>>
    /\ colors.TEXT_WHITE = <<15, 23, 42>>

\* s is an initial part of t
IsPrefix(s, t) == Len(s) <= Len(t) /\ \A k \in 1..Len(s) : s[k] = t[k]

\* C11: a second call of generate() on the same generator returns the
\* content stream the first call returned; while it runs, the stream holds
\* only elements of this call (an initial part of the first stream), never
\* the first call's elements with this call's added
C11_GenerateIdempotent ==
    run >= 2 =>
        /\ prev.built
        /\ pc \in {"sections", "cleanup", "respond", "except", "done"}
              => IsPrefix(elements, prev.stream)
        /\ (pc \in {"cleanup", "respond", "done"} /\ exc = "") =>
              /\ elements = prev.stream
              /\ pdf_bytes.stream = prev.stream

\* C11 witness: the second call has returned a stream of several sections'
\* elements
C11_Witness ==
    /\ run = 2
    /\ pc = "done"
    /\ response.status = 200
    /\ pdf_bytes.stream = prev.stream
    /\ \E a, b \in 1..Len(pdf_bytes.stream) :
          pdf_bytes.stream[a].sec # pdf_bytes.stream[b].sec

\* C12: with two handlers interleaved at their awaits, the section list,
\* the palette, the content stream and the outcome of each build are what
\* the same request gives with only its own temporary file on the disk; a
\* handler's logo path is a file it created itself, and while a handler
\* waits with its file written, the file is on the disk as it wrote it and
\* is no other waiting handler's file
C12_NoSharedState ==
    /\ \A h \in Handlers :
          (hs[h].pc = "done" /\ hs[h].status # 422) =>
              LET alone == HandlerBuild(hs[h].req, hs[h].logo_path, hs[h].mine,
                                        hs[h].layout)
              IN /\ hs[h].sections = alone.sections
                 /\ hs[h].colors = alone.colors
                 /\ hs[h].stream = alone.stream
                 /\ hs[h].status = alone.status
    /\ \A h \in Handlers :
          Truthy(hs[h].logo_path) =>
              \E f \in hs[h].mine : f.path = hs[h].logo_path
    /\ \A h, g \in Handlers :
          (h # g /\ hs[h].pc = "closing" /\ hs[g].pc = "closing")
              => \A f \in hs[h].mine, k \in hs[g].mine : f.path # k.path
    /\ \A h \in Handlers :
          hs[h].pc = "closing" => hs[h].mine \subseteq disk

\* C12 witness: one handler has delivered a document with its logo in the
\* stream while the other handler, its own logo file written, is still
\* waiting in download_logo
C12_Witness ==
    \E h, g \in Handlers :
        /\ h # g
        /\ hs[h].pc = "done"
        /\ hs[h].status = 200
        /\ \E k \in 1..Len(hs[h].stream) : hs[h].stream[k].kind = "Image"
        /\ hs[g].pc = "closing"
        /\ Truthy(hs[g].logo_path)
        /\ hs[g].req # hs[h].req

\* ---- the color operations
Last == hist[Len(hist)]

InByteRange(c) == \A i \in 1..3 : c[i] \in 0..255

\* C21: every channel of every color an operation returns, and of every
\* color of a palette resolved from a config, is a byte 0..255 (so its
\* normalized value byte/255 is within [0,1]), for each amount tried,
\* those below 0 and above 1 included; lighten(#000000, 0.5) is #7f7f7f
C21_ChannelsInRange ==
    /\ InByteRange(cur)
    /\ colors.source = "config" =>
          \A n \in DOMAIN colors \ {"source"} : InByteRange(colors[n])
    /\ (seed = <<0, 0, 0>> /\ Len(hist) = 1 /\ hist[1].op = "lighten"
            /\ hist[1].h = 50)
          => _color_hex(cur) = <<"#", "7", "f", "7", "f", "7", "f">>

\* C21 witness: darkening #ff0000 by -0.5 scales the red channel to 1.5,
\* which is clamped back to 255
C21_Witness ==
    /\ seed = <<255, 0, 0>>
    /\ Len(hist) = 1
    /\ hist[1].op = "darken"
    /\ hist[1].h = -50
    /\ cur = <<255, 0, 0>>

\* C22: darken(c, 0) is c, also when applied twice; lighten(c, 1) is
\* #ffffff; darken(c, 1) is #000000
C22_Identities ==
    /\ (hist # <<>> /\ \A i \in 1..Len(hist) :
                          hist[i].op = "darken" /\ hist[i].h = 0)
          => cur = seed
    /\ (hist # <<>> /\ Last.op = "lighten" /\ Last.h = 100)
          => cur = <<255, 255, 255>>
    /\ (hist # <<>> /\ Last.op = "darken" /\ Last.h = 100)
          => cur = <<0, 0, 0>>

\* C22 witness: darken by 0 was applied twice to a seed of three different
\* channels, none of them 0 or 255
C22_Witness ==
    /\ Len(hist) = 2
    /\ hist[1].op = "darken"
    /\ hist[1].h = 0
    /\ seed = SeedColor(1)
    /\ cur = seed

\* C23: adjust_color(color, factor) is lighten(color, factor - 1) for a
\* factor above 1 and darken(color, 1 - factor) otherwise; with factor 1
\* the color comes back unchanged
C23_AdjustIsLightenOrDarken ==
    (hist # <<>> /\ Last.op = "adjust_color") =>
        /\ cur = IF Last.h > 100
                 THEN _lighten_color(prevc, FSub(Amount(Last.h), FOne))
                 ELSE _darken_color(prevc, FSub(FOne, Amount(Last.h)))
        /\ Last.h = 100 => cur = prevc

\* C23 witness: adjust_color(#000000, 1.1) has lightened black
C23_Witness ==
    /\ seed = <<0, 0, 0>>
    /\ Len(hist) = 1
    /\ hist[1].op = "adjust_color"
    /\ hist[1].h = 110
    /\ cur = <<25, 25, 25>>

\* C24: in a palette resolved from a config, each channel of EMERALD_LIGHT
\* is at least that of the primary, each channel of EMERALD_GLOW at least
\* that of EMERALD_LIGHT, and each channel of EMERALD_DARK at most that of
\* the primary
C24_PrimaryVariantsOrdered ==
    colors.source = "config" =>
        \A i \in 1..3 :
            /\ colors.EMERALD_LIGHT[i] >= colors.EMERALD_PRIMARY[i]
            /\ colors.EMERALD_GLOW[i] >= colors.EMERALD_LIGHT[i]
            /\ colors.EMERALD_DARK[i] <= colors.EMERALD_PRIMARY[i]

\* C24 witness: the palette of primary #ff0000 has EMERALD_LIGHT #ff3333
C24_Witness ==
    /\ colors.source = "config"
    /\ colors.EMERALD_PRIMARY = <<255, 0, 0>>
    /\ colors.EMERALD_LIGHT = <<255, 51, 51>>

\* C25: adjust_opacity with a factor in [0,1] returns no channel above the
\* color's in a dark palette and no channel below it in a light palette;
\* with factor 1 it returns the color in both
C25_OpacityBlend ==
    (hist # <<>> /\ Last.op = "adjust_opacity" /\ Last.h \in 0..100) =>
        /\ Last.theme = "dark" => \A i \in 1..3 : cur[i] <= prevc[i]
        /\ Last.theme = "light" => \A i \in 1..3 : cur[i] >= prevc[i]
        /\ (Last.h = 100 /\ Last.theme \in {"dark", "light"}) => cur = prevc

\* C25 witness: a light palette has blended a color toward white
C25_Witness ==
    /\ Len(hist) = 1
    /\ hist[1].op = "adjust_opacity"
    /\ hist[1].theme = "light"
    /\ hist[1].h = 70
    /\ \A i \in 1..3 : cur[i] > prevc[i]

\* ---- the theme variant of a generator
\* The variant the page decorator draws: the gradient band is dark-only
DecoratorVariant(thm) == IF DrawsGradient(thm) THEN "dark" ELSE "light"

\* C30: the palette a generator holds was resolved in the variant its page
\* decorator draws: a built-in palette is the dark built-in exactly when
\* the decorator draws the gradient band, and a palette derived from a
\* config has the derivation factors and the blend direction of the
\* decorator's variant
C30_SameVariant ==
    colors # NoPalette =>
        IF colors.source = "static"
        THEN colors = FromStatic(IF DecoratorVariant(theme) = "dark"
                                 THEN VentazoColors ELSE VentazoColorsLight)
        ELSE /\ request.styles.some
             /\ request.styles.val.colors.some
             /\ colors = FromConfig(request.styles.val.colors.val,
                                    DecoratorVariant(theme))

\* ---- the MCP server
\* The requests main() has finished with: all that were read, but the one
\* it is handling
Processed ==
    SubSeq(consumed, 1, IF mpc = "handle" THEN Len(consumed) - 1
                        ELSE Len(consumed))

\* A notification is a request without an id
IsNotification(req) == ~req.id.some

\* What main() writes for a sequence of requests it handled
RECURSIVE Responses(_)
Responses(reqs) ==
    IF reqs = <<>> THEN <<>>
    ELSE (IF handle_request(Head(reqs)).raised
             \/ handle_request(Head(reqs)).response = NoneResponse
          THEN <<>> ELSE <<handle_request(Head(reqs)).response>>)
         \o Responses(Tail(reqs))

\* The tool dispatch of a tools/call request raises
ToolRaises(req) ==
    /\ req.method = "tools/call"
    /\ req.params.kind # "null"
    /\ CallTool(req.params.name, req.params.arguments).raised

\* C26: when main() is done with a request, the responses written are one
\* for each request read that is not a notification, in the order read and
\* with its id, and none for a notification
C26_OneResponsePerRequest ==
    /\ Len(stdout) = Len(SelectSeq(Processed, LAMBDA r : ~IsNotification(r)))
    /\ \A j \in 1..Len(stdout) :
          stdout[j].id =
              SelectSeq(Processed, LAMBDA r : ~IsNotification(r))[j].id

\* C27: a tools/call whose tool raised has been answered with one error
\* response of code -32603 that carries its id and the exception's
\* message; the loop has not left, and every request read after it has
\* been answered as handle_request answers it
C27_ToolErrorAnswered ==
    /\ mpc # "exited"
    /\ stdout = Responses(Processed)
    /\ \A k \in 1..Len(Processed) :
          ToolRaises(Processed[k]) =>
              /\ handle_request(Processed[k]) =
                     Returns(RpcError(Processed[k].id, -32603,
                                      <<"TypeError", Processed[k].params.name>>))
              /\ Len(SelectSeq(stdout,
                               LAMBDA w : w.id = Processed[k].id)) = 1

\* C27 witness: the input is at its end, the first request was a call of
\* predict_demand without its required arguments, answered with -32603,
\* and the tools/list after it was answered with a result
C27_Witness ==
    /\ stdin = <<>>
    /\ mpc = "check"
    /\ Len(consumed) = 2
    /\ ToolRaises(consumed[1])
    /\ consumed[2].method = "tools/list"
    /\ Len(stdout) = 2
    /\ stdout[1].code = -32603
    /\ stdout[1].id = consumed[1].id
    /\ stdout[2].kind = "result"
    /\ stdout[2].id = consumed[2].id

\* C29: once standard input is at its end and main() is back at reading,
\* with every request handled, main() leaves its loop
C29_ExitsAtEof == (stdin = <<>> /\ mpc = "readline") ~> (mpc = "exited")

\* ---- predict_demand
\* C28: for a valid city and date predict_demand returns a demand_index
\* in 50..300 and the demand_level of that index (from 200 EXTREME, from
\* 170 VERY_HIGH, from 140 HIGH, from 115 MEDIUM, below LOW); for a date
\* outside the tournament the index is in 90..110, the level LOW and the
\* confidence MEDIUM
C28_DemandIndexClamped ==
    (/\ pd.at = "returned"
     /\ Upper(dargs.city_code) \in HostCityCodes
     /\ dargs.date.parses) =>
        /\ pd.error = ""
        /\ pd.demand_index \in 50..300
        /\ pd.demand_index >= 200 <=> pd.demand_level = "EXTREME"
        /\ pd.demand_index \in 170..199 <=> pd.demand_level = "VERY_HIGH"
        /\ pd.demand_index \in 140..169 <=> pd.demand_level = "HIGH"
        /\ pd.demand_index \in 115..139 <=> pd.demand_level = "MEDIUM"
        /\ pd.demand_index < 115 <=> pd.demand_level = "LOW"
        /\ (dargs.date.offset < 0 \/ dargs.date.offset > LastDay) =>
              /\ pd.demand_index \in 90..110
              /\ pd.demand_level = "LOW"
              /\ pd.confidence = "MEDIUM"

\* C28 witness: a match day close to the stadium brought the demand above
\* 300 and the index returned is 300
C28_Witness ==
    /\ pd.at = "returned"
    /\ pd.base_demand > 300
    /\ pd.demand_index = 300
    /\ pd.demand_level = "EXTREME"
    /\ pd.confidence = "HIGH"

====
